---- MODULE Spec2Model ----
(***************************************************************************)
(* Interval aggregation and profit analytics of the internal-p2p bots:     *)
(* floor_datetime / generate_buckets, the aggregate_* folds, IntervalStats *)
(* (src/statistics-bot.py) and the whole-period aggregation of             *)
(* src/legacy_profits_bot.py.                                              *)
(*                                                                         *)
(* Numbers.  TLC integers are 32 bit wide, the engine works with 16        *)
(* significant decimal digits, so a natural number is a sequence of        *)
(* decimal digits, least significant first, without leading zeros          *)
(* (<<>> is 0), and a decimal.Decimal is [neg, coef, exp] with the value   *)
(* (-1)^neg * coef * 10^exp.  A Decimal is kept with its low-order zeros   *)
(* stripped, so that = on the records is Python's == on the values; the    *)
(* exponent Python would print (1.50 against 1.5) is not modelled.  Only   *)
(* finite values are modelled (no NaN, no Infinity).                       *)
(***************************************************************************)
EXTENDS Integers, Sequences, FiniteSets, Bags, TLC

\* ------------------------------------------------------------ naturals

\* F(...F(F(st, lo), lo + 1)..., hi): a loop over lo..hi.  The range is
\* halved and the state of the first half is evaluated before the second
\* half starts, which keeps TLC's evaluation stack logarithmic in hi - lo.
RECURSIVE Iter(_, _, _, _)
Iter(F(_, _), st, lo, hi) ==
  IF lo > hi THEN st
  ELSE IF lo = hi THEN F(st, lo)
  ELSE LET mid  == (lo + hi) \div 2
           left == Iter(F, st, lo, mid)
       IN  IF left = left THEN Iter(F, left, mid + 1, hi) ELSE left

RECURSIVE NDigits(_)
NDigits(n) == IF n = 0 THEN <<>> ELSE <<n % 10>> \o NDigits(n \div 10)

\* without leading (high-order) zeros
NStrip(a) ==
  IF \A i \in 1..Len(a) : a[i] = 0 THEN <<>>
  ELSE SubSeq(a, 1, CHOOSE i \in 1..Len(a) :
                      a[i] # 0 /\ \A j \in (i + 1)..Len(a) : a[j] = 0)

NZeros(k) == [i \in 1..k |-> 0]

\* a * 10^k
NShl(a, k) == IF a = <<>> THEN a ELSE NZeros(k) \o a

NDigitAt(a, i) == IF i <= Len(a) THEN a[i] ELSE 0

\* a + b, digit by digit; the carry into a place is found by looking back
\* for the nearest lower place that makes one (all places between pass it on)
NAdd(a, b) ==
  LET n == IF Len(a) > Len(b) THEN Len(a) ELSE Len(b)
      S(i) == NDigitAt(a, i) + NDigitAt(b, i)
      C(i) == IF \E j \in 1..(i - 1) :
                   S(j) >= 10 /\ \A k \in (j + 1)..(i - 1) : S(k) = 9
              THEN 1 ELSE 0
  IN  NStrip([i \in 1..(n + 1) |-> (S(i) + C(i)) % 10])

\* -1, 0, 1 as a < b, a = b, a > b
NCmp(a, b) ==
  IF Len(a) < Len(b) THEN -1
  ELSE IF Len(a) > Len(b) THEN 1
  ELSE IF a = b THEN 0
  ELSE LET i == CHOOSE k \in 1..Len(a) :
                  a[k] # b[k] /\ \A j \in (k + 1)..Len(a) : a[j] = b[j]
       IN  IF a[i] < b[i] THEN -1 ELSE 1

\* a - b for a >= b; the borrow into a place is found by looking back
NSub(a, b) ==
  LET W(i) == IF \E j \in 1..(i - 1) :
                   /\ a[j] < NDigitAt(b, j)
                   /\ \A k \in (j + 1)..(i - 1) : a[k] = NDigitAt(b, k)
              THEN 1 ELSE 0
  IN  NStrip([i \in 1..Len(a) |-> (a[i] - NDigitAt(b, i) - W(i) + 10) % 10])

\* a * m for a small integer m
NMulS(a, m) ==
  LET Step(st, i) ==
        LET s == a[i] * m + st.c
        IN  [d |-> Append(st.d, s % 10), c |-> s \div 10]
      r == Iter(Step, [d |-> <<>>, c |-> 0], 1, Len(a))
  IN  NStrip(r.d \o NDigits(r.c))

\* the multiples 0 * a, ..., 9 * a
NTable(a) == [k \in 0..9 |-> NMulS(a, k)]

\* a * b: the sum of each column of the long multiplication, then the carries
NMul(a, b) ==
  LET la == Len(a)
      lb == Len(b)
      Col(k) ==
        LET Term(acc, i) == acc + a[i] * b[k + 1 - i]
        IN  Iter(Term, 0, IF k + 1 - lb > 1 THEN k + 1 - lb ELSE 1, IF k < la THEN k ELSE la)
      Step(st, k) ==
        LET s == Col(k) + st.c
        IN  [d |-> Append(st.d, s % 10), c |-> s \div 10]
      r == Iter(Step, [d |-> <<>>, c |-> 0], 1, la + lb - 1)
  IN  IF a = <<>> \/ b = <<>> THEN <<>> ELSE NStrip(r.d \o NDigits(r.c))

\* the largest digit d with d * b <= r, for r < 10 * b, and what is left;
\* t holds the multiples of b
NFit(r, t) ==
  LET d == CHOOSE k \in 0..9 :
             /\ NCmp(t[k], r) <= 0
             /\ k < 9 => NCmp(t[k + 1], r) > 0
  IN  [q |-> d, r |-> NSub(r, t[d])]

\* long division of a from its most significant digit; t holds the
\* multiples of the divisor
NDivModT(a, t) ==
  LET n == Len(a)
      Step(st, i) ==
        LET f == NFit(NStrip(<<a[n + 1 - i]>> \o st.r), t)
        IN  [q |-> NStrip(<<f.q>> \o st.q), r |-> f.r]
  IN  Iter(Step, [q |-> <<>>, r |-> <<>>], 1, n)

\* quotient and remainder of a by b > 0
NDivMod(a, b) == NDivModT(a, NTable(b))

NPow(m, k) ==
  LET Step(acc, i) == NMulS(acc, m) IN Iter(Step, <<1>>, 1, k)

\* ------------------------------------------------------------ Decimal

\* getcontext().prec = 16
PREC == 16

\* low-order zeros of the coefficient go to the exponent; 0 is 0E0
DecCanon(neg, coef, exp) ==
  IF \A i \in 1..Len(coef) : coef[i] = 0
  THEN [neg |-> FALSE, coef |-> <<>>, exp |-> 0]
  ELSE LET c == NStrip(coef)
           k == CHOOSE i \in 1..Len(c) : c[i] # 0 /\ \A j \in 1..(i - 1) : c[j] = 0
       IN  [neg |-> neg, coef |-> SubSeq(c, k, Len(c)), exp |-> exp + k - 1]

Zero == DecCanon(FALSE, <<>>, 0)

\* Decimal(n) of a small integer n
DecOfInt(n) == IF n < 0 THEN DecCanon(TRUE, NDigits(-n), 0) ELSE DecCanon(FALSE, NDigits(n), 0)

\* n * 10^e
DecSci(n, e) == IF n < 0 THEN DecCanon(TRUE, NDigits(-n), e) ELSE DecCanon(FALSE, NDigits(n), e)

DecNeg(x) == IF x.coef = <<>> THEN x ELSE [x EXCEPT !.neg = ~x.neg]

DecAbs(x) == [x EXCEPT !.neg = FALSE]

\* the context's rounding (ROUND_HALF_EVEN) of coef * 10^exp to prec digits
DecRoundTo(neg, coef, exp, prec) ==
  IF Len(coef) <= prec THEN DecCanon(neg, coef, exp)
  ELSE LET k    == Len(coef) - prec
           kept == SubSeq(coef, k + 1, Len(coef))
           rest == \E i \in 1..(k - 1) : coef[i] # 0
           up   == \/ coef[k] > 5
                   \/ coef[k] = 5 /\ (rest \/ kept[1] % 2 = 1)
       IN  DecCanon(neg, IF up THEN NAdd(kept, <<1>>) ELSE kept, exp + k)

\* the sum, exactly (no context)
DecAddExact(x, y) ==
  LET e  == IF x.exp < y.exp THEN x.exp ELSE y.exp
      cx == NShl(x.coef, x.exp - e)
      cy == NShl(y.coef, y.exp - e)
  IN  IF x.coef = <<>> THEN y
      ELSE IF y.coef = <<>> THEN x
      ELSE IF x.neg = y.neg THEN DecCanon(x.neg, NAdd(cx, cy), e)
      ELSE IF NCmp(cx, cy) >= 0 THEN DecCanon(x.neg, NSub(cx, cy), e)
      ELSE DecCanon(y.neg, NSub(cy, cx), e)

\* Decimal.__add__ under the context: the exact sum rounded to PREC digits
DecAdd(x, y) ==
  LET s == DecAddExact(x, y) IN DecRoundTo(s.neg, s.coef, s.exp, PREC)

\* Decimal.__sub__
DecSub(x, y) == DecAdd(x, DecNeg(y))

\* -x: the unary minus rounds its result to the context precision
DecMinus(x) == DecRoundTo(~x.neg, x.coef, x.exp, PREC)

\* Decimal.__mul__
DecMul(x, y) ==
  DecRoundTo(x.neg # y.neg, NMul(x.coef, y.coef), x.exp + y.exp, PREC)

\* the outcome of an operation that raised (DivisionByZero, InvalidOperation)
Raised == [raised |-> TRUE]

None == [none |-> TRUE]

\* a quotient with its last digit made sticky: a remainder is recorded in
\* a last digit of 0 or 5
NSticky(dm) ==
  IF dm.r # <<>> /\ (dm.q = <<>> \/ dm.q[1] % 5 = 0) THEN NAdd(dm.q, <<1>>) ELSE dm.q

NMax0(n) == IF n > 0 THEN n ELSE 0

\* x / y with the dividend's coefficient scaled by 10^shift
DecDivShift(x, y, shift) ==
  DecRoundTo(x.neg # y.neg,
             NSticky(NDivMod(NShl(x.coef, NMax0(shift)), NShl(y.coef, NMax0(-shift)))),
             x.exp - y.exp - shift, PREC)

\* Decimal.__truediv__: x / 0 raises; otherwise PREC + 1 or more digits of
\* the quotient with a sticky last digit, rounded to PREC digits
DecDiv(x, y) ==
  IF y.coef = <<>> THEN Raised
  ELSE IF x.coef = <<>> THEN Zero
  ELSE DecDivShift(x, y, Len(y.coef) - Len(x.coef) + PREC + 1)

\* ------------------------------------------------------------ float

\* A float is [neg, m, k]: the number m * 2^k with 2^52 <= m < 2^53, or 0
\* with m = <<>>. Only normal binary64 numbers occur: the magnitudes stay far
\* from overflow and from the subnormal range.

BITS == 53    \* the significand bits of a binary64

\* 2^0 .. 2^127 and 5^0 .. 5^127
Pow2Step(acc, i) == Append(acc, NMulS(acc[i], 2))

Pow2Table == Iter(Pow2Step, << <<1>> >>, 1, 127)

Pow5Step(acc, i) == Append(acc, NMulS(acc[i], 5))

Pow5Table == Iter(Pow5Step, << <<1>> >>, 1, 127)

Pow2(n) == IF n < Len(Pow2Table) THEN Pow2Table[n + 1] ELSE NPow(2, n)

Pow5(n) == IF n < Len(Pow5Table) THEN Pow5Table[n + 1] ELSE NPow(5, n)

FloatZero == [neg |-> FALSE, m |-> <<>>, k |-> 0]

\* the number of bits of a natural q > 0
BitLength(q) ==
  LET lo == ((Len(q) - 1) * 33219) \div 10000
  IN  CHOOSE b \in lo..(lo + 5) :
        (b = 0 \/ NCmp(Pow2(b - 1), q) <= 0) /\ NCmp(q, Pow2(b)) < 0

\* m * 2^k with m of BITS bits or one more: BITS + 1 bits happen when a
\* rounding carried into a new bit, and then m is a power of two
FloatOf(neg, m, k) ==
  IF NCmp(m, Pow2(BITS)) >= 0
  THEN [neg |-> neg, m |-> Pow2(BITS - 1), k |-> k + 1]
  ELSE [neg |-> neg, m |-> m, k |-> k]

\* dm.q, plus one when what is below it rounds up: dm is q divided by 2^s
\* for s >= 1, and sticky says that something nonzero lies below q
FloatRoundUp(dm, half, sticky) ==
  IF NCmp(dm.r, half) > 0 \/ (dm.r = half /\ (sticky \/ dm.q[1] % 2 = 1))
  THEN NAdd(dm.q, <<1>>) ELSE dm.q

\* q of bl bits as a float
FloatRoundBits(neg, q, k, sticky, bl) ==
  IF bl <= BITS
  THEN [neg |-> neg, m |-> NMul(q, Pow2(BITS - bl)), k |-> k - (BITS - bl)]
  ELSE FloatOf(neg, FloatRoundUp(NDivMod(q, Pow2(bl - BITS)), Pow2(bl - BITS - 1), sticky),
               k + bl - BITS)

\* the float nearest to (q + f) * 2^k, ties to even, where 0 <= f < 1 and
\* sticky says f > 0; with sticky, q has more than BITS bits
FloatRound(neg, q, k, sticky) ==
  IF q = <<>> THEN FloatZero ELSE FloatRoundBits(neg, q, k, sticky, BitLength(q))

\* the float nearest to the quotient of q * 2^k by d
FloatQuotient(neg, dm, k) == FloatRound(neg, dm.q, k, dm.r # <<>>)

\* the bits to scale a Decimal of the given coefficient length and exponent
\* by, so that its integer part has more than BITS bits
ScaleBits(len, exp) == NMax0(BITS + 4 - ((len + exp - 1) * 33219) \div 10000)

\* float(x) for a Decimal x # 0: the quotient of its coefficient, scaled by
\* 2^sh, by the power of ten it is a fraction of
ToFloatScaled(x, sh) ==
  FloatQuotient(x.neg,
                NDivMod(NMul(NShl(x.coef, NMax0(x.exp)), Pow2(sh)), NShl(<<1>>, NMax0(-x.exp))),
                -sh)

\* float(x) for a Decimal x
ToFloat(x) ==
  IF x.coef = <<>> THEN FloatZero ELSE ToFloatScaled(x, ScaleBits(Len(x.coef), x.exp))

\* a + b for naturals with signs: the sign and the magnitude
SignedSum(aneg, a, bneg, b) ==
  IF aneg = bneg THEN [neg |-> aneg, q |-> NAdd(a, b)]
  ELSE IF NCmp(a, b) >= 0 THEN [neg |-> aneg, q |-> NSub(a, b)]
  ELSE [neg |-> bneg, q |-> NSub(b, a)]

FloatOfSum(s, k) == FloatRound(s.neg, s.q, k, FALSE)

\* x + y for nonzero floats, both scaled to the exponent k
FloatAddAt(x, y, k) ==
  FloatOfSum(SignedSum(x.neg, NMul(x.m, Pow2(x.k - k)), y.neg, NMul(y.m, Pow2(y.k - k))), k)

\* float.__add__: the exact sum, rounded to the nearest float
FloatAdd(x, y) ==
  IF x.m = <<>> THEN y
  ELSE IF y.m = <<>> THEN x
  ELSE FloatAddAt(x, y, IF x.k < y.k THEN x.k ELSE y.k)

\* float / int for an int n >= 1: the exact quotient, rounded to the nearest
\* float
FloatDivInt(x, n) ==
  IF x.m = <<>> THEN FloatZero
  ELSE FloatQuotient(x.neg, NDivMod(NMul(x.m, Pow2(35)), NDigits(n)), x.k - 35)

\* the Decimal that a float is exactly
FloatExact(x) ==
  IF x.m = <<>> THEN Zero
  ELSE IF x.k >= 0 THEN DecCanon(x.neg, NMul(x.m, Pow2(x.k)), 0)
  ELSE DecCanon(x.neg, NMul(x.m, Pow5(-x.k)), x.k)

\* x rounded half-even to places decimals: the number format(x, ".4f") prints
Fixed(x, places) ==
  IF x.exp >= -places THEN x
  ELSE LET k == -places - x.exp
       IN  IF k > Len(x.coef)
           THEN Zero
           ELSE LET kept == SubSeq(x.coef, k + 1, Len(x.coef))
                    rest == \E i \in 1..(k - 1) : x.coef[i] # 0
                    even == kept = <<>> \/ kept[1] % 2 = 0
                    up   == x.coef[k] > 5 \/ (x.coef[k] = 5 /\ (rest \/ ~even))
                IN  DecCanon(x.neg, IF up THEN NAdd(kept, <<1>>) ELSE kept, -places)

\* ------------------------------------------------------------ datetime

\* a naive datetime.datetime
DT(y, mo, d, h, mi, sec, us) ==
  [year |-> y, month |-> mo, day |-> d, hour |-> h, minute |-> mi,
   second |-> sec, microsecond |-> us]

IsLeap(y) == y % 4 = 0 /\ (y % 100 # 0 \/ y % 400 = 0)

DaysInMonth(y, mo) ==
  IF mo = 2 THEN (IF IsLeap(y) THEN 29 ELSE 28)
  ELSE IF mo \in {4, 6, 9, 11} THEN 30 ELSE 31

\* date.toordinal(): 0001-01-01 is day 1
DaysBeforeYear(y) ==
  (y - 1) * 365 + (y - 1) \div 4 - (y - 1) \div 100 + (y - 1) \div 400

RECURSIVE DaysBeforeMonth(_, _)
DaysBeforeMonth(y, mo) ==
  IF mo = 1 THEN 0 ELSE DaysBeforeMonth(y, mo - 1) + DaysInMonth(y, mo - 1)

ToOrdinal(dt) == DaysBeforeYear(dt.year) + DaysBeforeMonth(dt.year, dt.month) + dt.day

\* date.fromordinal(n), as [year, month, day]
FromOrdinal(n) ==
  LET z   == n - 1 + 306
      era == z \div 146097
      doe == z - era * 146097
      yoe == (doe - doe \div 1460 + doe \div 36524 - doe \div 146096) \div 365
      doy == doe - (365 * yoe + yoe \div 4 - yoe \div 100)
      mp  == (5 * doy + 2) \div 153
      mo  == IF mp < 10 THEN mp + 3 ELSE mp - 9
  IN  [year  |-> yoe + era * 400 + (IF mo <= 2 THEN 1 ELSE 0),
       month |-> mo,
       day   |-> doy - (153 * mp + 2) \div 5 + 1]

\* datetime.weekday(): Monday is 0
Weekday(dt) == (ToOrdinal(dt) + 6) % 7

\* dt + timedelta(days = days, hours = hours)
AddDelta(dt, days, hours) ==
  LET h == dt.hour + hours
      d == FromOrdinal(ToOrdinal(dt) + days + h \div 24)
  IN  [dt EXCEPT !.year = d.year, !.month = d.month, !.day = d.day,
                 !.hour = h % 24]

\* the order of naive datetimes: -1, 0, 1
DtCmp(a, b) ==
  LET ka == <<a.year, a.month, a.day, a.hour, a.minute, a.second, a.microsecond>>
      kb == <<b.year, b.month, b.day, b.hour, b.minute, b.second, b.microsecond>>
  IN  IF ka = kb THEN 0
      ELSE LET i == CHOOSE k \in 1..7 : ka[k] # kb[k] /\ \A j \in 1..(k - 1) : ka[j] = kb[j]
           IN  IF ka[i] < kb[i] THEN -1 ELSE 1

DtLe(a, b) == DtCmp(a, b) <= 0

Intervals == {"hour", "day", "week", "month"}

\* floor_datetime: Raised stands for the ValueError of an unsupported interval
\* floor_datetime with weeks that start on Sunday
floor_datetime_sunday(dt, interval) ==
  IF interval = "hour"
  THEN [dt EXCEPT !.minute = 0, !.second = 0, !.microsecond = 0]
  ELSE IF interval = "day"
  THEN [dt EXCEPT !.hour = 0, !.minute = 0, !.second = 0, !.microsecond = 0]
  ELSE IF interval = "week"
  THEN LET start == AddDelta(dt, -((Weekday(dt) + 1) % 7), 0)
       IN  [start EXCEPT !.hour = 0, !.minute = 0, !.second = 0, !.microsecond = 0]
  ELSE IF interval = "month"
  THEN [dt EXCEPT !.day = 1, !.hour = 0, !.minute = 0, !.second = 0,
                  !.microsecond = 0]
  ELSE Raised

floor_datetime(dt, interval) ==
  IF interval = "hour"
  THEN [dt EXCEPT !.minute = 0, !.second = 0, !.microsecond = 0]
  ELSE IF interval = "day"
  THEN [dt EXCEPT !.hour = 0, !.minute = 0, !.second = 0, !.microsecond = 0]
  ELSE IF interval = "week"
  THEN LET start == AddDelta(dt, -Weekday(dt), 0)
       IN  [start EXCEPT !.hour = 0, !.minute = 0, !.second = 0, !.microsecond = 0]
  ELSE IF interval = "month"
  THEN [dt EXCEPT !.day = 1, !.hour = 0, !.minute = 0, !.second = 0,
                  !.microsecond = 0]
  ELSE Raised

\* add_month that keeps the year when it leaves December
add_month_same_year(d) ==
  IF d.month = 12 THEN [d EXCEPT !.month = 1, !.day = 1]
  ELSE [d EXCEPT !.month = d.month + 1, !.day = 1]

\* add_month in generate_buckets
add_month(d) ==
  IF d.month = 12 THEN [d EXCEPT !.year = d.year + 1, !.month = 1, !.day = 1]
  ELSE [d EXCEPT !.month = d.month + 1, !.day = 1]

\* the advance whose month step goes to day 1 of the same month
advance_month_in_place(current, interval) ==
  IF interval = "month" THEN [current EXCEPT !.day = 1]
  ELSE IF interval = "hour" THEN AddDelta(current, 0, 1)
  ELSE IF interval = "day" THEN AddDelta(current, 1, 0)
  ELSE AddDelta(current, 7, 0)

\* the advance with a step of one day for a week
advance_week_by_day(current, interval) ==
  IF interval = "month" THEN add_month(current)
  ELSE IF interval = "hour" THEN AddDelta(current, 0, 1)
  ELSE AddDelta(current, 1, 0)

\* one advance of the loop of generate_buckets
advance(current, interval) ==
  IF interval = "month" THEN add_month(current)
  ELSE IF interval = "hour" THEN AddDelta(current, 0, 1)
  ELSE IF interval = "day" THEN AddDelta(current, 1, 0)
  ELSE AddDelta(current, 7, 0)

\* while current < end, in place of while current <= end
loop_continues_strict(current, end) == DtCmp(current, end) < 0

\* the test of the while loop of generate_buckets: current <= end
loop_continues(current, end) == DtLe(current, end)

\* the while loop of generate_buckets, from current to end
RECURSIVE bucket_loop(_, _, _, _)
bucket_loop(buckets, current, end, interval) ==
  IF loop_continues(current, end)
  THEN bucket_loop(Append(buckets, current), advance(current, interval), end, interval)
  ELSE buckets

\* generate_buckets(from_dt, to_dt, interval)
generate_buckets(from_dt, to_dt, interval) ==
  IF interval \notin Intervals THEN Raised
  ELSE bucket_loop(<<>>, floor_datetime(from_dt, interval),
                   floor_datetime(to_dt, interval), interval)

\* ------------------------------------------------------------ raw records

VARIABLE
  run       \* the period, granularity, host offset and environment of this run

\* os.environ.get("FIAT", "UAH") and os.environ.get("ASSET", "USDT"): the
\* environment of the run, the defaults where no run sets them
FIAT == IF "fiat" \in DOMAIN run THEN run.fiat ELSE "UAH"
ASSET == IF "asset" \in DOMAIN run THEN run.asset ELSE "USDT"

\* A raw field of a record is one of: absent (the key is missing or None),
\* the empty string, a string the parser rejects, or a string the parser
\* accepts, which is written as the value it denotes.
Missing == [k |-> "missing"]
Empty == [k |-> "empty"]
Bad == [k |-> "bad"]
Num(d) == [k |-> "num", v |-> d]
Iso(dt) == [k |-> "iso", dt |-> dt]
\* an epoch in milliseconds, as whole days and the milliseconds of the day
Ms(day, ms) == [k |-> "ms", day |-> day, ms |-> ms]

\* str.upper() on the status strings of the model
Upper(s) ==
  CASE s = "completed" -> "COMPLETED"
    [] s = "Finished" -> "FINISHED"
    [] s = "success" -> "SUCCESS"
    [] s = "cancelled" -> "CANCELLED"
    [] s = "Canceled" -> "CANCELED"
    [] s = "cancel" -> "CANCEL"
    [] s = "cancelled_by_system" -> "CANCELLED_BY_SYSTEM"
    [] s = "auto_cancelled" -> "AUTO_CANCELLED"
    [] s = "pending" -> "PENDING"
    [] OTHER -> s

\* str.lower() on the kind strings and command tokens of the model
Lower(s) ==
  CASE s = "DEBIT" -> "debit"
    [] s = "Debit" -> "debit"
    [] s = "CREDIT" -> "credit"
    [] s = "Credit" -> "credit"
    [] s = "Week" -> "week"
    [] s = "PDF" -> "pdf"
    [] OTHER -> s

\* x or "": an absent field reads as the empty string
OrEmpty(s) == IF s = "None" THEN "" ELSE s

\* Decimal(str(t.get(key, "0"))): only a missing key takes the default
DecimalOfGet(raw) ==
  IF raw.k = "missing" THEN Zero
  ELSE IF raw.k = "num" THEN raw.v
  ELSE Raised

\* Decimal(row.get(key) or "0"): a missing or empty field takes the default
DecimalOfGetOr(raw) ==
  IF raw.k \in {"missing", "empty"} THEN Zero
  ELSE IF raw.k = "num" THEN raw.v
  ELSE Raised

EpochOrdinal == 719163    \* date(1970, 1, 1).toordinal()
MsPerDay == 86400000
MsPerHour == 3600000

\* datetime.fromtimestamp(int(ts) / 1000.0): the naive local time of a host
\* whose clock is tz hours ahead of UTC
fromtimestamp(raw, tz) ==
  IF raw.k # "ms" THEN Raised
  ELSE LET loc == raw.ms + tz * MsPerHour
           d   == FromOrdinal(EpochOrdinal + raw.day + loc \div MsPerDay)
           r   == loc % MsPerDay
       IN  DT(d.year, d.month, d.day, r \div MsPerHour, (r \div 60000) % 60,
              (r \div 1000) % 60, (r % 1000) * 1000)

\* datetime.fromisoformat(s)
fromisoformat(raw) == IF raw.k = "iso" THEN raw.dt ELSE Raised

\* ------------------------------------------------------------ dictionaries

Get(d, k, default) == IF k \in DOMAIN d THEN d[k] ELSE default

Put(d, k, v) == [x \in DOMAIN d \cup {k} |-> IF x = k THEN v ELSE d[x]]

\* defaultdict(lambda: Decimal("0")): d[k] = v in place of d[k] += v
AddAtAssign(d, k, v) == Put(d, k, v)

\* d.setdefault(k, v) in place of d[k] += v: the first value of a key stays
AddAtFirst(d, k, v) == IF k \in DOMAIN d THEN d ELSE Put(d, k, v)

\* defaultdict(lambda: Decimal("0")): d[k] += v
AddAt(d, k, v) == Put(d, k, DecAdd(Get(d, k, Zero), v))

\* a counter that is bumped for every bucket seen so far
IncEvery(d, k) == [b \in DOMAIN d \cup {k} |-> Get(d, b, 0) + 1]

\* defaultdict(int): d[k] += 1
Inc(d, k) == Put(d, k, Get(d, k, 0) + 1)

\* ------------------------------------------------------------ aggregation

\* A trade is [asset, fiat, createTime, orderStatus, amount, totalPrice], an
\* order row is [created, uah, usdt, status] and a transaction is
\* [currency, created_at, amount, kind]; every record carries its variant.

cancelled_statuses ==
  {"CANCELLED", "CANCELED", "CANCEL", "CANCELLED_BY_SYSTEM", "AUTO_CANCELLED"}

\* aggregate_trades_binance with the completed test of the legacy bot
trade_step_completed_only(acc, t, interval, tz) ==
  IF t.asset # ASSET \/ t.fiat # FIAT THEN acc
  ELSE LET dt == fromtimestamp(t.createTime, tz)
       IN  IF dt = Raised THEN acc
           ELSE LET bucket      == floor_datetime(dt, interval)
                    status      == Upper(OrEmpty(t.orderStatus))
                    amount      == DecimalOfGet(t.amount)
                    total_price == DecimalOfGet(t.totalPrice)
                IN  IF status \in cancelled_statuses
                    THEN [acc EXCEPT !.cancelled_counts = Inc(@, bucket)]
                    ELSE IF status # "COMPLETED" THEN acc
                    ELSE IF amount = Raised \/ total_price = Raised THEN acc
                    ELSE [acc EXCEPT
                            !.sold_fiat_totals = AddAt(@, bucket, total_price),
                            !.sold_crypto_totals = AddAt(@, bucket, amount)]

\* one iteration of the loop of aggregate_trades_binance(trades, interval)
trade_step(acc, t, interval, tz) ==
  IF t.asset # ASSET \/ t.fiat # FIAT THEN acc
  ELSE LET dt == fromtimestamp(t.createTime, tz)
       IN  IF dt = Raised THEN acc
           ELSE LET bucket      == floor_datetime(dt, interval)
                    status      == Upper(OrEmpty(t.orderStatus))
                    amount      == DecimalOfGet(t.amount)
                    total_price == DecimalOfGet(t.totalPrice)
                IN  IF status \in cancelled_statuses
                    THEN [acc EXCEPT !.cancelled_counts = Inc(@, bucket)]
                    ELSE IF status \notin {"COMPLETED", "FINISHED", "SUCCESS"} THEN acc
                    ELSE IF amount = Raised \/ total_price = Raised THEN acc
                    ELSE [acc EXCEPT
                            !.sold_fiat_totals = AddAt(@, bucket, total_price),
                            !.sold_crypto_totals = AddAt(@, bucket, amount)]

\* aggregate_internal_orders_csv counting the row before its amounts are parsed
order_step_count_first(acc, row, interval) ==
  LET dt == fromisoformat(row.created)
  IN  IF dt = Raised THEN acc
      ELSE LET bucket == floor_datetime(dt, interval)
               uah    == DecimalOfGetOr(row.uah)
               usdt   == DecimalOfGetOr(row.usdt)
           IN  IF bucket = Raised THEN acc
               ELSE IF uah = Raised \/ usdt = Raised
               THEN [acc EXCEPT !.order_counts = Inc(@, bucket)]
               ELSE [acc EXCEPT
                       !.bought_fiat_totals = AddAt(@, bucket, uah),
                       !.bought_crypto_totals = AddAt(@, bucket, usdt),
                       !.order_counts = Inc(@, bucket)]

\* aggregate_internal_orders_csv keeping only the rows whose status is completed
order_step_completed_only(acc, row, interval) ==
  LET dt == fromisoformat(row.created)
  IN  IF dt = Raised THEN acc
      ELSE LET bucket == floor_datetime(dt, interval)
               uah    == DecimalOfGetOr(row.uah)
               usdt   == DecimalOfGetOr(row.usdt)
           IN  IF bucket = Raised THEN acc
               ELSE IF uah = Raised \/ usdt = Raised THEN acc
               ELSE IF Upper(row.status) # "COMPLETED" THEN acc
               ELSE [acc EXCEPT
                       !.bought_fiat_totals = AddAt(@, bucket, uah),
                       !.bought_crypto_totals = AddAt(@, bucket, usdt),
                       !.order_counts = Inc(@, bucket)]

\* one iteration of the loop of aggregate_internal_orders_csv(csv_text, interval)
order_step(acc, row, interval) ==
  LET dt == fromisoformat(row.created)
  IN  IF dt = Raised THEN acc
      ELSE LET bucket == floor_datetime(dt, interval)
               uah    == DecimalOfGetOr(row.uah)
               usdt   == DecimalOfGetOr(row.usdt)
           IN  IF bucket = Raised THEN acc
               ELSE IF uah = Raised \/ usdt = Raised THEN acc
               ELSE [acc EXCEPT
                       !.bought_fiat_totals = AddAt(@, bucket, uah),
                       !.bought_crypto_totals = AddAt(@, bucket, usdt),
                       !.order_counts = Inc(@, bucket)]

\* aggregate_transactions adding every amount whatever the kind
transaction_step_unsigned(acc, tr, interval) ==
  IF tr.currency # ASSET THEN acc
  ELSE LET dt == fromisoformat(tr.created_at)
       IN  IF dt = Raised THEN acc
           ELSE LET bucket == floor_datetime(dt, interval)
                    amount == DecimalOfGet(tr.amount)
                IN  IF amount = Raised THEN acc
                    ELSE [acc EXCEPT !.flows = AddAt(@, bucket, amount)]

\* one iteration of the loop of aggregate_transactions(transactions, interval)
transaction_step(acc, tr, interval) ==
  IF tr.currency # ASSET THEN acc
  ELSE LET dt == fromisoformat(tr.created_at)
       IN  IF dt = Raised THEN acc
           ELSE LET bucket == floor_datetime(dt, interval)
                    amount == DecimalOfGet(tr.amount)
                    kind   == Lower(OrEmpty(tr.kind))
                IN  IF amount = Raised THEN acc
                    ELSE [acc EXCEPT !.flows =
                            AddAt(@, bucket,
                                  IF kind = "debit" THEN DecMinus(amount) ELSE amount)]

\* the dictionaries the three aggregations start from
EmptyAgg ==
  [sold_fiat_totals |-> <<>>, sold_crypto_totals |-> <<>>,
   cancelled_counts |-> <<>>, bought_fiat_totals |-> <<>>,
   bought_crypto_totals |-> <<>>, order_counts |-> <<>>, flows |-> <<>>]

\* ------------------------------------------------------------ IntervalStats

Range(seq) == {seq[i] : i \in 1..Len(seq)}

\* the OrderedDicts of an IntervalStats
StatsFields ==
  {"bought_fiat", "bought_crypto", "order_counts", "sold_fiat", "sold_crypto",
   "cancelled_counts", "tx_flows"}

\* IntervalStats.__init__(buckets); keys[f] is the order of the keys of the
\* OrderedDict f, the order in which they were inserted
IntervalStats_init(buckets) ==
  [buckets          |-> buckets,
   bought_fiat      |-> [b \in Range(buckets) |-> Zero],
   bought_crypto    |-> [b \in Range(buckets) |-> Zero],
   order_counts     |-> [b \in Range(buckets) |-> 0],
   sold_fiat        |-> [b \in Range(buckets) |-> Zero],
   sold_crypto      |-> [b \in Range(buckets) |-> Zero],
   cancelled_counts |-> [b \in Range(buckets) |-> 0],
   tx_flows         |-> [b \in Range(buckets) |-> Zero],
   keys             |-> [f \in StatsFields |-> buckets]]

\* populate copying every key of the aggregate
populate_every_key(own, given, buckets) ==
  [b \in DOMAIN own \cup DOMAIN given |-> IF b \in DOMAIN given THEN given[b] ELSE own[b]]

\* for b in self.buckets: if b in given: own[b] = given[b]
populate_field(own, given, buckets) ==
  LET hit == {b \in Range(buckets) : b \in DOMAIN given}
  IN  [b \in DOMAIN own \cup hit |-> IF b \in hit THEN given[b] ELSE own[b]]

\* the same where an assignment moves its key behind all others
populate_keys_moved(keys, given, buckets) ==
  LET Step(ks, i) ==
        IF buckets[i] \in DOMAIN given
        THEN Append(SelectSeq(ks, LAMBDA k : k # buckets[i]), buckets[i])
        ELSE ks
  IN  Iter(Step, keys, 1, Len(buckets))

\* The key order of one OrderedDict after populate: own[b] = given[b] keeps
\* the place of a key that is there and puts a new key behind all others.
populate_keys(keys, given, buckets) ==
  LET Step(ks, i) ==
        IF buckets[i] \in DOMAIN given /\ buckets[i] \notin Range(ks)
        THEN Append(ks, buckets[i])
        ELSE ks
  IN  Iter(Step, keys, 1, Len(buckets))

\* own[b] += given[b] in place of own[b] = given[b], for amounts and for counts
populate_field_add(own, given, buckets, Plus(_, _)) ==
  LET hit == {b \in Range(buckets) : b \in DOMAIN given}
  IN  [b \in DOMAIN own \cup hit |-> IF b \in hit THEN Plus(own[b], given[b]) ELSE own[b]]

IntPlus(a, b) == a + b

\* populate adding the aggregates to what the object holds
populate_adding(self, agg) ==
  [self EXCEPT
     !.bought_fiat      = populate_field_add(@, agg.bought_fiat_totals, self.buckets, DecAdd),
     !.bought_crypto    = populate_field_add(@, agg.bought_crypto_totals, self.buckets, DecAdd),
     !.order_counts     = populate_field_add(@, agg.order_counts, self.buckets, IntPlus),
     !.sold_fiat        = populate_field_add(@, agg.sold_fiat_totals, self.buckets, DecAdd),
     !.sold_crypto      = populate_field_add(@, agg.sold_crypto_totals, self.buckets, DecAdd),
     !.cancelled_counts = populate_field_add(@, agg.cancelled_counts, self.buckets, IntPlus),
     !.tx_flows         = populate_field_add(@, agg.flows, self.buckets, DecAdd)]

\* IntervalStats.populate(...)
populate(self, agg) ==
  [self EXCEPT
     !.keys = [@ EXCEPT
       !.bought_fiat      = populate_keys(@, agg.bought_fiat_totals, self.buckets),
       !.bought_crypto    = populate_keys(@, agg.bought_crypto_totals, self.buckets),
       !.order_counts     = populate_keys(@, agg.order_counts, self.buckets),
       !.sold_fiat        = populate_keys(@, agg.sold_fiat_totals, self.buckets),
       !.sold_crypto      = populate_keys(@, agg.sold_crypto_totals, self.buckets),
       !.cancelled_counts = populate_keys(@, agg.cancelled_counts, self.buckets),
       !.tx_flows         = populate_keys(@, agg.flows, self.buckets)],
     !.bought_fiat      = populate_field(@, agg.bought_fiat_totals, self.buckets),
     !.bought_crypto    = populate_field(@, agg.bought_crypto_totals, self.buckets),
     !.order_counts     = populate_field(@, agg.order_counts, self.buckets),
     !.sold_fiat        = populate_field(@, agg.sold_fiat_totals, self.buckets),
     !.sold_crypto      = populate_field(@, agg.sold_crypto_totals, self.buckets),
     !.cancelled_counts = populate_field(@, agg.cancelled_counts, self.buckets),
     !.tx_flows         = populate_field(@, agg.flows, self.buckets)]

\* x / y / z ... inside try: a Raised operand makes the result Raised
DecDivT(x, y) == IF x = Raised \/ y = Raised THEN Raised ELSE DecDiv(x, y)

DecMulT(x, y) == IF x = Raised \/ y = Raised THEN Raised ELSE DecMul(x, y)

DecSubT(x, y) == IF x = Raised \/ y = Raised THEN Raised ELSE DecSub(x, y)

\* IntervalStats.profit_rate(b)
profit_rate(self, b) ==
  LET bc == self.bought_crypto[b]
      sf == self.sold_fiat[b]
      sc == self.sold_crypto[b]
      bf == self.bought_fiat[b]
  IN  IF bc = Zero \/ sc = Zero THEN None
      ELSE LET avg_buy_rate  == DecDiv(bf, bc)
               avg_sell_rate == DecDiv(sf, sc)
               r             == DecDivT(avg_sell_rate, avg_buy_rate)
           IN  IF r = Raised THEN None ELSE r

\* profit_amount without the fee of sc / 1000
profit_amount_no_fee(self, b) ==
  LET bc == self.bought_crypto[b]
      sc == self.sold_crypto[b]
      bf == self.bought_fiat[b]
      sf == self.sold_fiat[b]
  IN  IF bc = Zero \/ sc = Zero THEN None
      ELSE LET avg_buy_rate  == DecDiv(bf, bc)
               avg_sell_rate == DecDiv(sf, sc)
               r == DecSubT(DecDivT(DecMulT(sc, avg_sell_rate), avg_buy_rate), sc)
           IN  IF r = Raised THEN None ELSE r

\* profit_amount with a fee of sc / 100
profit_amount_fee_percent(self, b) ==
  LET bc == self.bought_crypto[b]
      sc == self.sold_crypto[b]
      bf == self.bought_fiat[b]
      sf == self.sold_fiat[b]
  IN  IF bc = Zero \/ sc = Zero THEN None
      ELSE LET avg_buy_rate  == DecDiv(bf, bc)
               avg_sell_rate == DecDiv(sf, sc)
               r == DecSubT(DecSubT(DecDivT(DecMulT(sc, avg_sell_rate), avg_buy_rate), sc),
                            DecDivT(sc, DecOfInt(100)))
           IN  IF r = Raised THEN None ELSE r

\* IntervalStats.profit_amount(b)
profit_amount(self, b) ==
  LET bc == self.bought_crypto[b]
      sc == self.sold_crypto[b]
      bf == self.bought_fiat[b]
      sf == self.sold_fiat[b]
  IN  IF bc = Zero \/ sc = Zero THEN None
      ELSE LET avg_buy_rate  == DecDiv(bf, bc)
               avg_sell_rate == DecDiv(sf, sc)
               r == DecSubT(DecSubT(DecDivT(DecMulT(sc, avg_sell_rate), avg_buy_rate), sc),
                            DecDivT(sc, DecOfInt(1000)))
           IN  IF r = Raised THEN None ELSE r

\* not x, for x a Decimal or None
Falsy(x) == x = None \/ x = Zero

\* format_profit_message of the legacy bot: which of its three messages it
\* returns, and the profit it prints in the third
format_profit_message(bought_fiat, bought_crypto, sold_fiat, sold_crypto) ==
  IF bought_crypto = Zero \/ sold_crypto = Zero THEN [message |-> "no data"]
  ELSE LET buy           == DecDiv(bought_fiat, bought_crypto)
           sell          == DecDiv(sold_fiat, sold_crypto)
           avg_buy_rate  == IF buy = Raised THEN None ELSE buy
           avg_sell_rate == IF sell = Raised THEN None ELSE sell
       IN  IF Falsy(avg_buy_rate) \/ Falsy(avg_sell_rate) THEN [message |-> "no rates"]
           ELSE [message       |-> "profit",
                 profit_rate   |-> DecDiv(avg_sell_rate, avg_buy_rate),
                 profit_amount |->
                   DecSub(DecSub(DecDiv(DecMul(sold_crypto, avg_sell_rate), avg_buy_rate),
                                 sold_crypto),
                          DecDiv(sold_crypto, DecOfInt(1000)))]

\* ------------------------------------------------------------ inputs

MaxEvents == 3     \* records aggregated in one run

\* whole days from 1970-01-01 to a date
EpochDay(y, mo, d) == ToOrdinal(DT(y, mo, d, 0, 0, 0, 0)) - EpochOrdinal

Trade(asset, fiat, createTime, orderStatus, amount, totalPrice) ==
  [variant |-> "trade", asset |-> asset, fiat |-> fiat, createTime |-> createTime,
   orderStatus |-> orderStatus, amount |-> amount, totalPrice |-> totalPrice]

Order(created, uah, usdt, status) ==
  [variant |-> "order", created |-> created, uah |-> uah, usdt |-> usdt,
   status |-> status]

Transaction(currency, created_at, amount, kind) ==
  [variant |-> "tx", currency |-> currency, created_at |-> created_at,
   amount |-> amount, kind |-> kind]

Big == DecSci(1, 16)

\* an order row of 1000 UAH for 25 USDT at 10:00 and a completed trade of
\* 25 USDT for 1050 UAH at 12:00 of the same day
ExampleOrder ==
  Order(Iso(DT(2025, 12, 1, 10, 0, 0, 0)), Num(DecOfInt(1000)), Num(DecOfInt(25)),
        "completed")

ExampleTrade ==
  Trade("USDT", "UAH", Ms(EpochDay(2025, 12, 1), 43200000), "COMPLETED",
        Num(DecOfInt(25)), Num(DecOfInt(1050)))

TradeInputs ==
  { ExampleTrade,
    Trade("USDT", "UAH", Ms(EpochDay(2025, 12, 1), 37815250), "COMPLETED",
          Num(Big), Num(DecOfInt(42))),
    Trade("USDT", "UAH", Ms(EpochDay(2025, 12, 1), 39900000), "completed",
          Num(DecOfInt(5)), Num(DecSci(2005, -1))),
    Trade("USDT", "UAH", Ms(EpochDay(2025, 12, 1), 84600000), "Canceled",
          Bad, Num(DecOfInt(80))),
    Trade("USDT", "UAH", Ms(EpochDay(2025, 12, 2), 32400000), "pending",
          Num(DecOfInt(5)), Num(DecOfInt(200))),
    Trade("USDT", "UAH", Ms(EpochDay(2025, 12, 3), 28800000), "Finished",
          Num(DecOfInt(7)), Num(DecOfInt(280))),
    Trade("BTC", "UAH", Ms(EpochDay(2025, 12, 1), 37815250), "COMPLETED",
          Num(DecOfInt(1)), Num(DecOfInt(40))),
    Trade("USDT", "UAH", Bad, "SUCCESS", Num(DecOfInt(3)), Num(DecOfInt(120))),
    Trade("USDT", "UAH", Ms(EpochDay(2025, 12, 2), 32400000), "COMPLETED",
          Empty, Num(DecOfInt(40))) }

OrderInputs ==
  { ExampleOrder,
    Order(Iso(DT(2025, 12, 1, 9, 15, 0, 0)), Num(DecOfInt(1000)), Num(DecOfInt(25)),
          "completed"),
    Order(Iso(DT(2025, 12, 1, 9, 15, 0, 0)), Num(DecOfInt(1000)), Num(DecOfInt(25)),
          "cancelled"),
    Order(Iso(DT(2025, 12, 2, 12, 0, 0, 0)), Empty, Num(DecOfInt(5)), "pending"),
    Order(Iso(DT(2025, 11, 30, 23, 59, 59, 0)), Num(DecOfInt(400)), Num(DecOfInt(10)),
          "completed"),
    Order(Bad, Num(DecOfInt(10)), Num(DecOfInt(1)), "completed"),
    Order(Iso(DT(2025, 12, 1, 10, 0, 0, 0)), Num(DecOfInt(-400)), Num(DecOfInt(-10)),
          "refunded"),
    Order(Iso(DT(2025, 12, 1, 12, 30, 0, 0)), Bad, Num(DecOfInt(1)), "") }

TransactionInputs ==
  { Transaction("USDT", Iso(DT(2025, 12, 1, 12, 40, 0, 0)), Num(DecOfInt(5)), "Debit"),
    Transaction("USDT", Iso(DT(2025, 12, 2, 10, 0, 0, 0)), Num(DecSci(75, -1)), "credit"),
    Transaction("UAH", Iso(DT(2025, 12, 1, 12, 40, 0, 0)), Num(DecOfInt(9)), "credit"),
    Transaction("USDT", Iso(DT(2025, 12, 1, 12, 45, 0, 0)), Bad, "credit"),
    Transaction("USDT", Iso(DT(2025, 12, 1, 12, 50, 0, 0)), Num(DecOfInt(3)), "refund"),
    Transaction("USDT", Iso(DT(2025, 12, 2, 11, 0, 0, 0)), Num(DecOfInt(2)), "None") }

\* the runs: a reporting period, its granularity, the host's UTC offset and
\* the FIAT and ASSET of its environment
Runs ==
  { [from_dt |-> DT(2025, 12, 1, 0, 0, 0, 0), to_dt |-> DT(2025, 12, 2, 0, 0, 0, 0),
     interval |-> "day", tz |-> 0, fiat |-> "UAH", asset |-> "USDT"],
    [from_dt |-> DT(2025, 12, 1, 12, 10, 0, 0), to_dt |-> DT(2025, 12, 1, 13, 50, 0, 0),
     interval |-> "hour", tz |-> 2, fiat |-> "UAH", asset |-> "USDT"],
    [from_dt |-> DT(2025, 12, 1, 0, 0, 0, 0), to_dt |-> DT(2025, 12, 2, 0, 0, 0, 0),
     interval |-> "day", tz |-> 0, fiat |-> "USD", asset |-> "USDT"] }

\* ------------------------------------------------------------ state

VARIABLES
  agg,      \* the dictionaries of the three aggregation functions
  stats,    \* the IntervalStats object
  bag,      \* the records handed to the aggregation functions so far
  pc        \* "aggregate" until populate is called, then "populated"

VARIABLES
  gen,      \* a call of generate_buckets: its arguments, locals and position
  profit,   \* what the profit functions returned for the bucket of stats
  legacy,   \* the accumulators of the legacy profits bot
  rep,      \* the totals of the report that stats() builds
  calls,    \* the aggregations of two report requests running side by side
  notif     \* the notifications bot: its dictionaries, handlers and poll runs

aggVars == <<run, agg, stats, bag, pc>>

vars == <<aggVars, gen, profit, legacy, rep, calls, notif>>

\* the variables outside the aggregation, and outside generate_buckets
notAgg == <<gen, profit, legacy, rep, calls, notif>>

notGen == <<aggVars, profit, legacy, rep, calls, notif>>

\* no call of generate_buckets is under way
GenIdle == [pc |-> "idle"]

\* the profit functions were not called
NotCalled == [called |-> FALSE]

ProfitIdle == [rate |-> NotCalled, amount |-> NotCalled, message |-> NotCalled]

\* the legacy bot is not running
LegacyIdle == [pc |-> "idle"]

\* no report is being built
RepIdle == [pc |-> "idle"]

\* no two requests are running side by side
CallsIdle == [pc |-> "idle"]

\* the notifications bot is not running
NotifIdle == [pc |-> "idle"]

Init ==
  /\ gen = GenIdle
  /\ profit = ProfitIdle
  /\ legacy = LegacyIdle
  /\ calls = CallsIdle
  /\ notif = NotifIdle
  /\ rep = RepIdle
  /\ run \in Runs
  /\ agg = EmptyAgg
  /\ stats = IntervalStats_init(generate_buckets(run.from_dt, run.to_dt, run.interval))
  /\ bag = EmptyBag
  /\ pc = "aggregate"

\* aggregate_trades_binance consumes the next trade
AggregateTrade ==
  /\ pc = "aggregate"
  /\ BagCardinality(bag) < MaxEvents
  /\ \E t \in TradeInputs :
       /\ agg' = trade_step(agg, t, run.interval, run.tz)
       /\ bag' = bag (+) SetToBag({t})
  /\ UNCHANGED <<run, stats, pc>>
  /\ UNCHANGED notAgg

\* aggregate_internal_orders_csv consumes the next row
AggregateOrder ==
  /\ pc = "aggregate"
  /\ BagCardinality(bag) < MaxEvents
  /\ \E row \in OrderInputs :
       /\ agg' = order_step(agg, row, run.interval)
       /\ bag' = bag (+) SetToBag({row})
  /\ UNCHANGED <<run, stats, pc>>
  /\ UNCHANGED notAgg

\* aggregate_transactions consumes the next transaction
AggregateTransaction ==
  /\ pc = "aggregate"
  /\ BagCardinality(bag) < MaxEvents
  /\ \E tr \in TransactionInputs :
       /\ agg' = transaction_step(agg, tr, run.interval)
       /\ bag' = bag (+) SetToBag({tr})
  /\ UNCHANGED <<run, stats, pc>>
  /\ UNCHANGED notAgg

\* stats.populate(...) with the dictionaries built so far
Populate ==
  /\ stats' = populate(stats, agg)
  /\ pc' = "populated"
  /\ UNCHANGED <<run, agg, bag>>
  /\ UNCHANGED notAgg

Next == AggregateTrade \/ AggregateOrder \/ AggregateTransaction \/ Populate

Spec == Init /\ [][Next]_vars

\* ------------------------------------------------------------ generate_buckets, step by step

MaxBuckets == 6    \* the periods span at most this many steps of their granularity

GenDates ==
  { DT(2024, 2, 28, 12, 0, 0, 0), DT(2024, 3, 1, 0, 0, 0, 0),
    DT(2025, 11, 15, 8, 30, 0, 0), DT(2025, 12, 31, 22, 15, 30, 500),
    DT(2026, 1, 1, 1, 0, 0, 0), DT(2026, 1, 5, 0, 0, 0, 0),
    DT(2026, 2, 28, 23, 59, 59, 999999), DT(2026, 3, 1, 0, 0, 0, 0) }

\* whole hours from the hour of a to the hour of b
SpanHours(a, b) == (ToOrdinal(b) - ToOrdinal(a)) * 24 + b.hour - a.hour

\* the longest step of a granularity, in hours
StepHours(interval) ==
  CASE interval = "hour" -> 1
    [] interval = "day" -> 24
    [] interval = "week" -> 168
    [] interval = "month" -> 744

\* the calls of generate_buckets: any two dates, in either order, with a
\* supported granularity or with one that is not
GenCalls ==
  {c \in [from_dt : GenDates, to_dt : GenDates, interval : Intervals] :
     SpanHours(c.from_dt, c.to_dt) <= MaxBuckets * StepHours(c.interval)}
  \cup [from_dt : GenDates, to_dt : GenDates, interval : {"year", "Day", ""}]

\* the aggregation is not running
AggIdle ==
  /\ run = None
  /\ agg = EmptyAgg
  /\ stats = None
  /\ bag = EmptyBag
  /\ pc = "idle"

InitBuckets ==
  /\ AggIdle
  /\ profit = ProfitIdle
  /\ legacy = LegacyIdle
  /\ calls = CallsIdle
  /\ notif = NotifIdle
  /\ rep = RepIdle
  /\ \E c \in GenCalls :
       gen = [pc |-> "call", from_dt |-> c.from_dt, to_dt |-> c.to_dt,
              interval |-> c.interval, buckets |-> <<>>, current |-> None, end |-> None]

\* buckets = []; current = floor_datetime(from_dt, interval); end = ...
\* The ValueError of floor_datetime leaves the function.
GenEnter ==
  /\ gen.pc = "call"
  /\ gen' = IF floor_datetime(gen.from_dt, gen.interval) = Raised
            THEN [gen EXCEPT !.pc = "raised"]
            ELSE [gen EXCEPT !.pc = "loop",
                             !.current = floor_datetime(gen.from_dt, gen.interval),
                             !.end = floor_datetime(gen.to_dt, gen.interval)]
  /\ UNCHANGED notGen

\* one pass of the while loop: buckets.append(current), then the advance
GenAppend ==
  /\ gen.pc = "loop"
  /\ loop_continues(gen.current, gen.end)
  /\ gen' = [gen EXCEPT !.buckets = Append(@, gen.current),
                        !.current = advance(gen.current, gen.interval)]
  /\ UNCHANGED notGen

\* the loop ends: return buckets
GenReturn ==
  /\ gen.pc = "loop"
  /\ ~loop_continues(gen.current, gen.end)
  /\ gen' = [gen EXCEPT !.pc = "returned"]
  /\ UNCHANGED notGen

NextBuckets == GenEnter \/ GenAppend \/ GenReturn

SpecBuckets == InitBuckets /\ [][NextBuckets]_vars

\* a call that has started keeps running: nothing suspends the loop
SpecBucketsFair == SpecBuckets /\ WF_vars(NextBuckets)

\* ------------------------------------------------------------ the profit of a bucket

ProfitValues ==
  { Zero, DecOfInt(25), DecOfInt(1000), DecSci(10505, -1) }

notProfit == <<run, agg, stats, bag, pc, gen, legacy, rep, calls, notif>>

TheBucket == DT(2025, 12, 1, 0, 0, 0, 0)

\* an IntervalStats of one bucket that holds any four volumes
InitProfit ==
  /\ run = None
  /\ agg = EmptyAgg
  /\ bag = EmptyBag
  /\ pc = "populated"
  /\ gen = GenIdle
  /\ legacy = LegacyIdle
  /\ calls = CallsIdle
  /\ notif = NotifIdle
  /\ rep = RepIdle
  /\ profit = ProfitIdle
  /\ \E bf \in ProfitValues, bc \in ProfitValues, sf \in ProfitValues, sc \in ProfitValues :
       stats = [IntervalStats_init(<<TheBucket>>) EXCEPT
                  !.bought_fiat[TheBucket] = bf, !.bought_crypto[TheBucket] = bc,
                  !.sold_fiat[TheBucket] = sf, !.sold_crypto[TheBucket] = sc]

\* stats.profit_rate(b)
CallProfitRate ==
  /\ profit.rate = NotCalled
  /\ \E b \in Range(stats.buckets) : profit' = [profit EXCEPT !.rate = profit_rate(stats, b)]
  /\ UNCHANGED notProfit

\* stats.profit_amount(b)
CallProfitAmount ==
  /\ profit.amount = NotCalled
  /\ \E b \in Range(stats.buckets) : profit' = [profit EXCEPT !.amount = profit_amount(stats, b)]
  /\ UNCHANGED notProfit

\* format_profit_message(...) of the legacy bot on the same four volumes
CallFormatProfitMessage ==
  /\ profit.message = NotCalled
  /\ \E b \in Range(stats.buckets) :
       profit' = [profit EXCEPT !.message =
                    format_profit_message(stats.bought_fiat[b], stats.bought_crypto[b],
                                          stats.sold_fiat[b], stats.sold_crypto[b])]
  /\ UNCHANGED notProfit

NextProfit == CallProfitRate \/ CallProfitAmount \/ CallFormatProfitMessage

SpecProfit == InitProfit /\ [][NextProfit]_vars

\* ------------------------------------------------------------ the legacy profits bot

\* Decimal(str(t["amount"])): a missing key raises KeyError
DecimalOfItem(raw) == IF raw.k = "num" THEN raw.v ELSE Raised

\* one iteration of the loop of the legacy aggregate_trades_binance(trades);
\* an exception leaves the loop and the function
legacy_trade_step(st, t) ==
  IF t.asset # ASSET \/ t.fiat # FIAT THEN st
  ELSE IF t.orderStatus # "COMPLETED" THEN st
  ELSE LET amount      == DecimalOfItem(t.amount)
           total_price == DecimalOfItem(t.totalPrice)
       IN  IF amount = Raised \/ total_price = Raised THEN [st EXCEPT !.pc = "raised"]
           ELSE [st EXCEPT !.total_crypto = DecAdd(@, amount),
                           !.total_fiat = DecAdd(@, total_price)]

legacy_cancelled_statuses == {"CANCELLED", "CANCELLED_BY_SYSTEM"}

\* one iteration of the loop of aggregate_cancelled_trades_binance(trades)
legacy_cancelled_step(st, t) ==
  IF t.asset # ASSET \/ t.fiat # FIAT THEN st
  ELSE IF t.orderStatus \notin legacy_cancelled_statuses THEN st
  ELSE LET parsed == DecimalOfGet(t.amount)
           amount == IF parsed = Raised THEN Zero ELSE parsed
       IN  [st EXCEPT !.cnt = @ + 1, !.cancelled_crypto = DecAdd(@, amount)]

LegacyTradeInputs ==
  { Trade("USDT", "UAH", Ms(EpochDay(2025, 12, 1), 37815250), status,
          Num(DecOfInt(5)), Num(DecSci(2005, -1))) :
      status \in {"COMPLETED", "completed", "FINISHED", "SUCCESS", "CANCELLED",
                  "cancelled", "CANCELED", "CANCEL", "CANCELLED_BY_SYSTEM",
                  "AUTO_CANCELLED", "PENDING"} }
  \cup
  { Trade("USDT", "UAH", Ms(EpochDay(2025, 12, 1), 37815250), "COMPLETED",
          Missing, Num(DecOfInt(40))),
    Trade("USDT", "UAH", Ms(EpochDay(2025, 12, 1), 37815250), "CANCELLED",
          Bad, Num(DecOfInt(40))),
    Trade("USDT", "USD", Ms(EpochDay(2025, 12, 1), 37815250), "COMPLETED",
          Num(DecOfInt(1)), Num(DecOfInt(1))) }

notLegacy == <<aggVars, gen, profit, rep, calls, notif>>

InitLegacy ==
  /\ AggIdle
  /\ gen = GenIdle
  /\ profit = ProfitIdle
  /\ rep = RepIdle
  /\ calls = CallsIdle
  /\ notif = NotifIdle
  /\ legacy = [pc |-> "running", total_fiat |-> Zero, total_crypto |-> Zero,
               sold_seen |-> EmptyBag, cnt |-> 0, cancelled_crypto |-> Zero,
               cancelled_seen |-> EmptyBag]

LegacySeen == BagCardinality(legacy.sold_seen) + BagCardinality(legacy.cancelled_seen)

\* the legacy aggregate_trades_binance consumes the next trade
LegacyAggregateTrade ==
  /\ legacy.pc = "running"
  /\ LegacySeen < MaxEvents
  /\ \E t \in LegacyTradeInputs :
       legacy' = [legacy_trade_step(legacy, t) EXCEPT
                    !.sold_seen = legacy.sold_seen (+) SetToBag({t})]
  /\ UNCHANGED notLegacy

\* aggregate_cancelled_trades_binance consumes the next trade
LegacyAggregateCancelled ==
  /\ legacy.pc = "running"
  /\ LegacySeen < MaxEvents
  /\ \E t \in LegacyTradeInputs :
       legacy' = [legacy_cancelled_step(legacy, t) EXCEPT
                    !.cancelled_seen = legacy.cancelled_seen (+) SetToBag({t})]
  /\ UNCHANGED notLegacy

NextLegacy == LegacyAggregateTrade \/ LegacyAggregateCancelled

SpecLegacy == InitLegacy /\ [][NextLegacy]_vars

\* ------------------------------------------------------------ the textual summary of stats()

\* a JSON integer of a record
JInt(n) == [k |-> "int", v |-> n]

\* int(rec.get(name, 0) or 0) for a field that is absent or a JSON integer
IntOfGetOr(raw) == IF raw.k = "int" THEN raw.v ELSE 0

\* rec.get(name) for a field that is absent, null or a JSON number
GetOrNone(raw) == IF raw.k = "num" THEN raw.v ELSE None

\* pa of the loop of stats(): Raised when one of the four values cannot be
\* read or a division fails, None when the record passes the condition by
stats_profit(bf, bc, sf, sc) ==
  IF Raised \in {bf, bc, sf, sc} THEN Raised
  ELSE IF bc # Zero /\ sc # Zero
       THEN LET avg_buy_rate  == DecDiv(bf, bc)
                avg_sell_rate == DecDiv(sf, sc)
            IN  DecSubT(DecSubT(DecDivT(DecMulT(sc, avg_sell_rate), avg_buy_rate), sc),
                        DecDivT(sc, DecOfInt(1000)))
       ELSE None

\* x of "if x is not None" after a try whose failure leaves the value out
NoneIfRaised(x) == IF x = Raised THEN None ELSE x

\* the argument of float(rec.get(name, 0) or 0)
FloatArg(raw) == IF raw.k = "num" THEN raw.v ELSE Zero

\* what one record adds to the integer totals
stats_ints(rec) ==
  [total_orders        |-> IntOfGetOr(rec.orders_count),
   total_maker_ads     |-> IntOfGetOr(rec.maker_ads_count),
   total_taker_ads     |-> IntOfGetOr(rec.taker_ads_count),
   total_maker_updates |-> IntOfGetOr(rec.maker_updates),
   total_taker_updates |-> IntOfGetOr(rec.taker_updates),
   total_withdraw_on   |-> IntOfGetOr(rec.withdraw_onchain_count),
   total_withdraw_off  |-> IntOfGetOr(rec.withdraw_offchain_count),
   total_cancelled     |-> IntOfGetOr(rec.cancelled_count),
   profit_rate_count   |-> IF GetOrNone(rec.profit_rate_avg) # None THEN 1 ELSE 0]

\* the values whose float() one record adds to the float totals, None where
\* the total is left alone; pa is the profit amount of the record
stats_floats(rec, pa) ==
  [total_withdraw_on_usdt  |-> FloatArg(rec.withdraw_onchain_usdt),
   total_withdraw_off_usdt |-> FloatArg(rec.withdraw_offchain_usdt),
   total_net_flow          |-> FloatArg(rec.net_tx_flow),
   total_profit_usdt_sum   |-> GetOrNone(rec.profit_usdt_avg),
   total_profit_rate_sum   |-> GetOrNone(rec.profit_rate_avg),
   total_profit_amount_sum |-> pa]

\* total += value, for the integer and the float totals
stats_add(st, ints, floats) ==
  [n \in DOMAIN st |->
     IF n \in DOMAIN ints THEN st[n] + ints[n]
     ELSE IF n \in DOMAIN floats
     THEN IF floats[n] = None THEN st[n] ELSE FloatAdd(st[n], ToFloat(floats[n]))
     ELSE st[n]]

\* the numbers of the line of one record: f"{x:.4f}" of the floats
stats_shown(vals) ==
  [n \in DOMAIN vals |->
     IF vals[n] = None THEN None ELSE Fixed(FloatExact(ToFloat(vals[n])), 4)]

\* the line of one record
stats_line(rec, pa) ==
  [dt            |-> fromisoformat(rec.period_start),
   orders        |-> IntOfGetOr(rec.orders_count),
   maker_ads     |-> IntOfGetOr(rec.maker_ads_count),
   taker_ads     |-> IntOfGetOr(rec.taker_ads_count),
   maker_updates |-> IntOfGetOr(rec.maker_updates),
   taker_updates |-> IntOfGetOr(rec.taker_updates),
   withdraw_on   |-> IntOfGetOr(rec.withdraw_onchain_count),
   withdraw_off  |-> IntOfGetOr(rec.withdraw_offchain_count),
   cancelled     |-> IntOfGetOr(rec.cancelled_count),
   shown         |-> stats_shown([profit   |-> pa,
                                  rate     |-> GetOrNone(rec.profit_rate_avg),
                                  net_flow |-> FloatArg(rec.net_tx_flow)])]

\* the body of the loop for a record whose period_start was parsed
stats_count(st, rec, pa) ==
  [stats_add(st, stats_ints(rec), stats_floats(rec, pa)) EXCEPT
     !.lines = Append(st.lines, stats_line(rec, pa))]

\* the same, the totals being added before period_start is looked at
stats_step_total_first(st, rec) ==
  IF fromisoformat(rec.period_start) = Raised
  THEN stats_add(st, stats_ints(rec), stats_floats(rec, None))
  ELSE stats_count(st, rec,
                   NoneIfRaised(stats_profit(DecimalOfGetOr(rec.bought_uah),
                                             DecimalOfGetOr(rec.bought_usdt),
                                             DecimalOfGetOr(rec.sold_uah),
                                             DecimalOfGetOr(rec.sold_usdt))))

\* one iteration of the loop over stats_data of stats()
stats_step(st, rec) ==
  IF fromisoformat(rec.period_start) = Raised THEN st
  ELSE stats_count(st, rec,
                   NoneIfRaised(stats_profit(DecimalOfGetOr(rec.bought_uah),
                                             DecimalOfGetOr(rec.bought_usdt),
                                             DecimalOfGetOr(rec.sold_uah),
                                             DecimalOfGetOr(rec.sold_usdt))))

\* the integer totals and the float totals that are printed as they are
IntTotals ==
  {"total_orders", "total_maker_ads", "total_taker_ads", "total_maker_updates",
   "total_taker_updates", "total_cancelled", "total_withdraw_on", "total_withdraw_off"}

FloatTotals ==
  {"total_withdraw_on_usdt", "total_withdraw_off_usdt", "total_net_flow",
   "total_profit_usdt_sum"}

\* the totals lines of the summary: the numbers they print
stats_totals(st) ==
  [n \in IntTotals |-> st[n]]
  @@ [n \in FloatTotals |-> Fixed(FloatExact(st[n]), 4)]
  @@ [profit_amount |-> Fixed(FloatExact(st.total_profit_amount_sum), 4),
      profit_rate   |->
        IF st.profit_rate_count # 0
        THEN Fixed(FloatExact(FloatDivInt(st.total_profit_rate_sum, st.profit_rate_count)), 4)
        ELSE None]

MaxRecords == 3

Record(ps, oc, canc, bf, bc, sf, sc, pr) ==
  [period_start |-> ps, orders_count |-> oc, cancelled_count |-> canc,
   bought_uah |-> bf, bought_usdt |-> bc, sold_uah |-> sf, sold_usdt |-> sc,
   profit_rate_avg |-> pr]

\* the activity fields of a record: ads, updates, withdrawals, the net flow
\* and the average profit
Activity(rec, ma, ta, mu, tu, woc, wfc, wousdt, wfusdt, net_flow, pr_usdt) ==
  rec @@ [maker_ads_count |-> ma, taker_ads_count |-> ta, maker_updates |-> mu,
          taker_updates |-> tu, withdraw_onchain_count |-> woc,
          withdraw_offchain_count |-> wfc, withdraw_onchain_usdt |-> wousdt,
          withdraw_offchain_usdt |-> wfusdt, net_tx_flow |-> net_flow,
          profit_usdt_avg |-> pr_usdt]

\* the bucket records the backend returns: a bucket with buys only, one with
\* sells only, two with both, one without a readable period_start and one
\* that bought at a price of zero
RecordInputs ==
  { Activity(Record(Iso(DT(2025, 12, 1, 0, 0, 0, 0)), JInt(2), JInt(0),
                    Num(DecOfInt(1000)), Num(DecOfInt(25)), Missing, Missing, Missing),
             JInt(3), JInt(1), JInt(4), Missing, JInt(1), JInt(0),
             Num(DecSci(125, -1)), Missing, Num(DecSci(1, -1)), Missing),
    Activity(Record(Iso(DT(2025, 12, 3, 0, 0, 0, 0)), JInt(3), Missing,
                    Num(DecOfInt(1000)), Num(DecOfInt(25)), Num(DecOfInt(1050)),
                    Num(DecOfInt(25)), Num(DecSci(105, -2))),
             JInt(1), JInt(1), JInt(1), JInt(1), JInt(2), JInt(1),
             Num(DecSci(15, -5)), Num(DecSci(45, -1)), Num(DecSci(-5, 0)),
             Num(DecSci(1225, -3))),
    Activity(Record(Iso(DT(2025, 12, 4, 0, 0, 0, 0)), JInt(2), JInt(2),
                    Num(DecOfInt(820)), Num(DecOfInt(20)), Num(DecSci(8605, -1)),
                    Num(DecOfInt(20)), Num(DecSci(10494, -4))),
             JInt(0), JInt(0), JInt(0), JInt(0), Missing, Missing,
             Missing, Missing, Num(DecSci(75, -1)), Num(DecSci(9678, -4))),
    Activity(Record(Missing, JInt(4), JInt(1),
                    Num(DecOfInt(1000)), Num(DecOfInt(25)), Num(DecOfInt(1050)),
                    Num(DecOfInt(25)), Num(DecSci(105, -2))),
             JInt(7), JInt(7), JInt(7), JInt(7), JInt(7), JInt(7),
             Num(DecOfInt(70)), Num(DecOfInt(70)), Num(DecOfInt(70)), Num(DecOfInt(70))),
    Activity(Record(Iso(DT(2025, 12, 5, 0, 0, 0, 0)), JInt(1), JInt(0),
                    Num(Zero), Num(DecOfInt(25)), Num(DecOfInt(1050)), Num(DecOfInt(25)),
                    Missing),
             JInt(2), Missing, JInt(1), JInt(1), JInt(1), JInt(1),
             Num(DecSci(2, -1)), Num(DecSci(1, -1)), Missing, Missing) }

notRep == <<aggVars, gen, profit, legacy, calls, notif>>

\* lines = [] and the totals at 0 and 0.0; data is the part of stats_data
\* the loop has been through
StatsStart ==
  [n \in IntTotals \cup {"profit_rate_count"} |-> 0]
  @@ [n \in FloatTotals \cup {"total_profit_rate_sum", "total_profit_amount_sum"} |->
        FloatZero]
  @@ [pc |-> "loop", data |-> <<>>, lines |-> <<>>, totals |-> None]

\* stats() has fetched stats_data and starts its summary
InitStats ==
  /\ AggIdle
  /\ gen = GenIdle
  /\ profit = ProfitIdle
  /\ legacy = LegacyIdle
  /\ calls = CallsIdle
  /\ notif = NotifIdle
  /\ rep = StatsStart

\* the loop takes the next record of stats_data
StatsRecord ==
  /\ rep.pc = "loop"
  /\ Len(rep.data) < MaxRecords
  /\ \E rec \in RecordInputs :
       rep' = [stats_step(rep, rec) EXCEPT !.data = Append(rep.data, rec)]
  /\ UNCHANGED notRep

\* stats_data is exhausted: the totals lines are written and the summary sent
StatsTotals ==
  /\ rep.pc = "loop"
  /\ rep' = [rep EXCEPT !.pc = "sent", !.totals = stats_totals(rep)]
  /\ UNCHANGED notRep

NextStats == StatsRecord \/ StatsTotals

SpecStats == InitStats /\ [][NextStats]_vars

\* ------------------------------------------------------------ the arguments of stats()

MaxTokens == 2     \* arguments after the two dates

\* a command argument that reads as a date in the format YYYY-MM-DD
DateStr(y, mo, d) == [k |-> "date", dt |-> DT(y, mo, d, 0, 0, 0, 0)]

\* parse_date_str(s): datetime.strptime(s, "%Y-%m-%d")
parse_date_str(raw) == IF raw.k = "date" THEN raw.dt ELSE Raised

DateArgs == {DateStr(2025, 12, 1), DateStr(2025, 12, 2), Bad}

Tokens == {"hour", "Week", "year", "PDF"}

RECURSIVE SeqsUpTo(_, _)
SeqsUpTo(S, n) ==
  IF n = 0 THEN {<<>>}
  ELSE SeqsUpTo(S, n - 1) \cup {Append(q, x) : q \in SeqsUpTo(S, n - 1), x \in S}

\* context.args: nothing, one date, or two dates and up to MaxTokens tokens
ArgInputs ==
  {<<>>} \cup {<<d>> : d \in DateArgs}
  \cup {<<f, t>> \o rest : f \in DateArgs, t \in DateArgs, rest \in SeqsUpTo(Tokens, MaxTokens)}

\* stats() is entered with a session, or without one, and its arguments
InitArgs ==
  /\ AggIdle
  /\ gen = GenIdle
  /\ profit = ProfitIdle
  /\ legacy = LegacyIdle
  /\ calls = CallsIdle
  /\ notif = NotifIdle
  /\ \E cookies \in BOOLEAN, args \in ArgInputs :
       rep = [pc |-> "args", cookies |-> cookies, args |-> args]

\* what stats() does with the session and the two dates: the reply it
\* returns with, or the state it enters the loop over the tokens in
stats_validate(cookies, args) ==
  IF ~cookies THEN [pc |-> "replied", args |-> args, reply |-> "no session"]
  ELSE IF Len(args) < 2 THEN [pc |-> "replied", args |-> args, reply |-> "two dates needed"]
  ELSE IF parse_date_str(args[1]) = Raised \/ parse_date_str(args[2]) = Raised
  THEN [pc |-> "replied", args |-> args, reply |-> "dates not parsed"]
  ELSE IF DtCmp(parse_date_str(args[2]), parse_date_str(args[1])) < 0
  THEN [pc |-> "replied", args |-> args, reply |-> "to_date before from_date"]
  ELSE [pc |-> "tokens", args |-> args, from_dt |-> parse_date_str(args[1]),
        to_dt |-> parse_date_str(args[2]), rest |-> SubSeq(args, 3, Len(args)),
        interval |-> "day", generate_pdf |-> FALSE]

\* one iteration of: for token in rest
stats_token(st, token) ==
  IF Lower(token) \in {"hour", "day", "week", "month"}
  THEN [st EXCEPT !.interval = Lower(token)]
  ELSE IF Lower(token) \in {"pdf", "report"}
  THEN [st EXCEPT !.generate_pdf = TRUE]
  ELSE st

\* the session, the number of arguments, the dates and their order are checked
StatsValidate ==
  /\ rep.pc = "args"
  /\ rep' = stats_validate(rep.cookies, rep.args)
  /\ UNCHANGED notRep

\* the loop over the tokens takes the next one
StatsToken ==
  /\ rep.pc = "tokens"
  /\ rep.rest # <<>>
  /\ rep' = [stats_token(rep, Head(rep.rest)) EXCEPT !.rest = Tail(rep.rest)]
  /\ UNCHANGED notRep

\* the tokens are exhausted: the period and the interval are announced and
\* fetch_statistics_report(from_dt, to_dt, interval, cookies) is called
StatsFetch ==
  /\ rep.pc = "tokens"
  /\ rep.rest = <<>>
  /\ rep' = [rep EXCEPT !.pc = "fetch"]
  /\ UNCHANGED notRep

NextArgs == StatsValidate \/ StatsToken \/ StatsFetch

SpecArgs == InitArgs /\ [][NextArgs]_vars

\* ------------------------------------------------------------ two requests side by side

MaxCallEvents == 2     \* records in the collections of one request

Calls == {"first", "second"}

\* the records the two requests draw their collections from
CallRecords ==
  { Order(Iso(DT(2025, 12, 1, 9, 15, 0, 0)), Num(DecOfInt(1000)), Num(DecOfInt(25)),
          "completed"),
    Trade("USDT", "UAH", Ms(EpochDay(2025, 12, 1), 39900000), "completed",
          Num(DecOfInt(5)), Num(DecSci(2005, -1))),
    Transaction("USDT", Iso(DT(2025, 12, 1, 12, 40, 0, 0)), Num(DecOfInt(5)), "Debit") }

\* the three aggregation functions applied to one record of a request, on a
\* host on UTC
event_step(acc, e, interval) ==
  CASE e.variant = "trade" -> trade_step(acc, e, interval, 0)
    [] e.variant = "order" -> order_step(acc, e, interval)
    [] e.variant = "tx" -> transaction_step(acc, e, interval)

\* one module-level set of dictionaries in place of those of the call
accumulators_shared(cs, c) == cs["first"].acc

\* the dictionaries of call c: local variables of the call, made anew by
\* defaultdict(...) when it starts
accumulators(cs, c) == cs[c].acc

\* two requests start: each has its collections and its granularity, and
\* its aggregation functions have just made their dictionaries
InitCalls ==
  /\ AggIdle
  /\ gen = GenIdle
  /\ profit = ProfitIdle
  /\ legacy = LegacyIdle
  /\ rep = RepIdle
  /\ notif = NotifIdle
  /\ \E e1, e2 \in SeqsUpTo(CallRecords, MaxCallEvents), i2 \in {"day", "hour"} :
       calls = [c \in Calls |->
                  [events |-> IF c = "first" THEN e1 ELSE e2,
                   interval |-> IF c = "first" THEN "day" ELSE i2,
                   pos |-> 0, acc |-> EmptyAgg, pc |-> "running"]]

notCalls == <<aggVars, gen, profit, legacy, rep, notif>>

\* the loop of call c takes its next record
CallStep(c) ==
  /\ calls[c].pc = "running"
  /\ calls[c].pos < Len(calls[c].events)
  /\ calls' = [calls EXCEPT
                 ![c].acc = event_step(accumulators(calls, c),
                                       calls[c].events[calls[c].pos + 1],
                                       calls[c].interval),
                 ![c].pos = @ + 1]
  /\ UNCHANGED notCalls

\* the loops of call c are through: return ...
CallReturn(c) ==
  /\ calls[c].pc = "running"
  /\ calls[c].pos = Len(calls[c].events)
  /\ calls' = [calls EXCEPT ![c].pc = "returned"]
  /\ UNCHANGED notCalls

NextCalls == \E c \in Calls : CallStep(c) \/ CallReturn(c)

SpecCalls == InitCalls /\ [][NextCalls]_vars

\* ------------------------------------------------------------ the notifications bot

MaxPolls == 2       \* runs of poll_notifications that get past the session test
MaxNotifId == 2     \* notifications the backend creates

\* the chat that talks to the bot
Chat == "chat"

\* d.pop(k, None)
Pop(d, k) == [x \in DOMAIN d \ {k} |-> d[x]]

\* no run of poll_notifications in this slot
NoRun == [pc |-> "none"]

\* the ids above since, oldest first: the response of the backend, newest
\* first, after items.reverse()
ItemsSince(since, server) == [i \in 1..(IF server > since THEN server - since ELSE 0) |-> since + i]

\* the bot has started: sessions = {}, last_notif_id = {}, no conversation,
\* no job; server is the id of the newest notification of the backend, job
\* tells whether the repeating job of the chat is scheduled, handler is the
\* position of the dispatcher thread, runs are the runs of poll_notifications
\* under way in the threads of the job queue (cur: of the job that is
\* scheduled now), last_done is the last handler that has changed the
\* subscription
notNotif == <<aggVars, gen, profit, legacy, rep, calls>>

InitNotif ==
  /\ AggIdle
  /\ gen = GenIdle
  /\ profit = ProfitIdle
  /\ legacy = LegacyIdle
  /\ rep = RepIdle
  /\ calls = CallsIdle
  /\ notif = [pc |-> "bot", sessions |-> {}, last_notif_id |-> <<>>, conv |-> "end",
              handler |-> "idle", job |-> FALSE, runs |-> [i \in 1..MaxPolls |-> NoRun],
              started |-> 0, server |-> 0, last_done |-> "none"]

\* start(): /start is an entry point, with allow_reentry
Start ==
  /\ notif.handler = "idle"
  /\ notif' = [notif EXCEPT !.conv = IF Chat \in notif.sessions THEN "running"
                                     ELSE "username"]
  /\ UNCHANGED notNotif

\* handle_username()
HandleUsername ==
  /\ notif.handler = "idle"
  /\ notif.conv = "username"
  /\ notif' = [notif EXCEPT !.conv = "password"]
  /\ UNCHANGED notNotif

\* handle_password(): api_login or api_me fails
HandlePasswordFailed ==
  /\ notif.handler = "idle"
  /\ notif.conv = "password"
  /\ notif' = [notif EXCEPT !.conv = "end"]
  /\ UNCHANGED notNotif

\* handle_password(): the login succeeds, sessions[chat_id] = s
HandlePasswordSession ==
  /\ notif.handler = "idle"
  /\ notif.conv = "password"
  /\ notif' = [notif EXCEPT !.sessions = @ \cup {Chat}, !.handler = "password_last"]
  /\ UNCHANGED notNotif

\* handle_password(): last_notif_id[chat_id] = 0
HandlePasswordLast ==
  /\ notif.handler = "password_last"
  /\ notif' = [notif EXCEPT !.last_notif_id = Put(@, Chat, 0), !.handler = "password_jobs"]
  /\ UNCHANGED notNotif

\* handle_password(): the jobs of the chat are removed and the new one is
\* scheduled; a run under way goes on
HandlePasswordJobs ==
  /\ notif.handler = "password_jobs"
  /\ notif' = [notif EXCEPT !.job = TRUE,
                            !.runs = [i \in 1..MaxPolls |->
                                        IF @[i] = NoRun THEN NoRun ELSE [@[i] EXCEPT !.cur = FALSE]],
                            !.handler = "idle", !.conv = "running", !.last_done = "login"]
  /\ UNCHANGED notNotif

\* stop(): sessions.pop(chat_id, None)
StopSessions ==
  /\ notif.handler = "idle"
  /\ notif' = [notif EXCEPT !.sessions = @ \ {Chat}, !.handler = "stop_last"]
  /\ UNCHANGED notNotif

\* stop(): last_notif_id.pop(chat_id, None)
StopLast ==
  /\ notif.handler = "stop_last"
  /\ notif' = [notif EXCEPT !.last_notif_id = Pop(@, Chat), !.handler = "stop_jobs"]
  /\ UNCHANGED notNotif

\* stop(): job.schedule_removal() for the jobs of the chat; a run under way
\* goes on
StopJobs ==
  /\ notif.handler = "stop_jobs"
  /\ notif' = [notif EXCEPT !.job = FALSE,
                            !.runs = [i \in 1..MaxPolls |->
                                        IF @[i] = NoRun THEN NoRun ELSE [@[i] EXCEPT !.cur = FALSE]],
                            !.handler = "idle", !.conv = "end", !.last_done = "stop"]
  /\ UNCHANGED notNotif

\* the job queue runs poll_notifications of the scheduled job, one run of a
\* job at a time: s = sessions.get(chat_id); if not s: return
PollBegin ==
  /\ notif.pc = "bot"
  /\ notif.job
  /\ notif.started < MaxPolls
  /\ \A i \in 1..MaxPolls : IF notif.runs[i] = NoRun THEN TRUE ELSE ~notif.runs[i].cur
  /\ notif' = IF Chat \in notif.sessions
              THEN [notif EXCEPT !.started = @ + 1,
                                 !.runs[notif.started + 1] =
                                   [pc |-> "get_last", cur |-> TRUE, last_id |-> 0, items |-> <<>>]]
              ELSE notif
  /\ UNCHANGED notNotif

\* poll_notifications: last_id = last_notif_id.get(chat_id, 0)
PollGetLast(i) ==
  /\ notif.runs[i].pc = "get_last"
  /\ notif' = [notif EXCEPT !.runs[i].last_id = Get(notif.last_notif_id, Chat, 0),
                            !.runs[i].pc = "fetch"]
  /\ UNCHANGED notNotif

\* poll_notifications: items = api_notifications_since(s, last_id), which is
\* [] when the request fails, and items.reverse()
PollFetch(i) ==
  /\ notif.runs[i].pc = "fetch"
  /\ \E ok \in BOOLEAN :
       notif' = [notif EXCEPT !.runs[i].items =
                                 IF ok THEN ItemsSince(notif.runs[i].last_id, notif.server)
                                 ELSE <<>>,
                              !.runs[i].pc = "loop"]
  /\ UNCHANGED notNotif

\* poll_notifications: one pass of the loop over items
PollItem(i) ==
  /\ notif.runs[i].pc = "loop"
  /\ notif.runs[i].items # <<>>
  /\ notif' = [notif EXCEPT !.last_notif_id =
                              IF Head(notif.runs[i].items) > notif.runs[i].last_id
                              THEN Put(@, Chat, Head(notif.runs[i].items))
                              ELSE @,
                            !.runs[i].items = Tail(@)]
  /\ UNCHANGED notNotif

\* poll_notifications returns
PollEnd(i) ==
  /\ notif.runs[i].pc = "loop"
  /\ notif.runs[i].items = <<>>
  /\ notif' = [notif EXCEPT !.runs[i] = NoRun]
  /\ UNCHANGED notNotif

\* the backend creates a notification for the user
ServerNotify ==
  /\ notif.pc = "bot"
  /\ notif.server < MaxNotifId
  /\ notif' = [notif EXCEPT !.server = @ + 1]
  /\ UNCHANGED notNotif

NextNotif ==
  \/ Start \/ HandleUsername \/ HandlePasswordFailed \/ HandlePasswordSession
  \/ HandlePasswordLast \/ HandlePasswordJobs
  \/ StopSessions \/ StopLast \/ StopJobs
  \/ PollBegin \/ ServerNotify
  \/ \E i \in 1..MaxPolls : PollGetLast(i) \/ PollFetch(i) \/ PollItem(i) \/ PollEnd(i)

SpecNotif == InitNotif /\ [][NextNotif]_vars

\* ------------------------------------------------------------ what a record is worth

CompletedSet == {"COMPLETED", "FINISHED", "SUCCESS"}

CancelledSet ==
  {"CANCELLED", "CANCELED", "CANCEL", "CANCELLED_BY_SYSTEM", "AUTO_CANCELLED"}

AllInputs == TradeInputs \cup OrderInputs \cup TransactionInputs

AmountFields == {"bought_fiat", "bought_crypto", "sold_fiat", "sold_crypto", "tx_flows"}

CountFields == {"order_counts", "cancelled_counts"}

\* the dictionary of an aggregation function that feeds a field of IntervalStats
AggOf(f) ==
  CASE f = "bought_fiat" -> agg.bought_fiat_totals
    [] f = "bought_crypto" -> agg.bought_crypto_totals
    [] f = "order_counts" -> agg.order_counts
    [] f = "sold_fiat" -> agg.sold_fiat_totals
    [] f = "sold_crypto" -> agg.sold_crypto_totals
    [] f = "cancelled_counts" -> agg.cancelled_counts
    [] f = "tx_flows" -> agg.flows

HasTime(e) ==
  CASE e.variant = "trade" -> e.createTime.k = "ms"
    [] e.variant = "order" -> e.created.k = "iso"
    [] e.variant = "tx" -> e.created_at.k = "iso"

TimeOf(e) ==
  CASE e.variant = "trade" -> fromtimestamp(e.createTime, run.tz)
    [] e.variant = "order" -> fromisoformat(e.created)
    [] e.variant = "tx" -> fromisoformat(e.created_at)

\* the bucket of a record with a timestamp
KeyOf(e) == floor_datetime(TimeOf(e), run.interval)

\* a raw amount that reads as a number, the listed kinds reading as 0
Readable(raw, defaults) == raw.k = "num" \/ raw.k \in defaults

ValueOf(raw) == IF raw.k = "num" THEN raw.v ELSE Zero

PassesFilter(e) ==
  CASE e.variant = "trade" -> e.asset = ASSET /\ e.fiat = FIAT
    [] e.variant = "order" -> TRUE
    [] e.variant = "tx" -> e.currency = ASSET

\* the record is accepted for field f
Accepts(e, f) ==
  /\ PassesFilter(e)
  /\ HasTime(e)
  /\ CASE f \in {"sold_fiat", "sold_crypto"} ->
            /\ e.variant = "trade"
            /\ Upper(e.orderStatus) \in CompletedSet
            /\ Readable(e.amount, {"missing"})
            /\ Readable(e.totalPrice, {"missing"})
       [] f = "cancelled_counts" ->
            e.variant = "trade" /\ Upper(e.orderStatus) \in CancelledSet
       [] f \in {"bought_fiat", "bought_crypto", "order_counts"} ->
            /\ e.variant = "order"
            /\ Readable(e.uah, {"missing", "empty"})
            /\ Readable(e.usdt, {"missing", "empty"})
       [] f = "tx_flows" ->
            e.variant = "tx" /\ Readable(e.amount, {"missing"})

\* what an accepted record adds to an amount field
Contribution(e, f) ==
  CASE f = "sold_fiat" -> ValueOf(e.totalPrice)
    [] f = "sold_crypto" -> ValueOf(e.amount)
    [] f = "bought_fiat" -> ValueOf(e.uah)
    [] f = "bought_crypto" -> ValueOf(e.usdt)
    [] f = "tx_flows" ->
         IF Lower(e.kind) = "debit" THEN DecNeg(ValueOf(e.amount)) ELSE ValueOf(e.amount)

\* the records seen so far that are accepted for f into bucket b
Into(f, b) == {e \in BagToSet(bag) : Accepts(e, f) /\ KeyOf(e) = b}

\* ... into any bucket of the generated list
InRange(f) == {e \in BagToSet(bag) : Accepts(e, f) /\ KeyOf(e) \in Range(stats.buckets)}

\* x * n, exactly
DecTimes(x, n) == DecCanon(x.neg, NMulS(x.coef, n), x.exp)

\* the mathematical sum of the contributions of the records of S, copies included
RECURSIVE ExactSum(_, _)
ExactSum(S, f) ==
  IF S = {} THEN Zero
  ELSE LET e == CHOOSE x \in S : TRUE
       IN  DecAddExact(DecTimes(Contribution(e, f), CopiesIn(e, bag)),
                       ExactSum(S \ {e}, f))

\* the same with every contribution taken by its absolute value
RECURSIVE AbsSum(_, _)
AbsSum(S, f) ==
  IF S = {} THEN Zero
  ELSE LET e == CHOOSE x \in S : TRUE
       IN  DecAddExact(DecTimes(DecAbs(Contribution(e, f)), CopiesIn(e, bag)),
                       AbsSum(S \ {e}, f))

\* the number of records of S, copies included
RECURSIVE Count(_)
Count(S) ==
  IF S = {} THEN 0
  ELSE LET e == CHOOSE x \in S : TRUE IN CopiesIn(e, bag) + Count(S \ {e})

\* the sum of the contributions of the records of S in one fixed order, as
\* the context adds them: each addition rounded to PREC digits
RECURSIVE AddCopies(_, _, _)
AddCopies(acc, x, n) == IF n = 0 THEN acc ELSE AddCopies(DecAdd(acc, x), x, n - 1)

RECURSIVE FixedOrderSum(_, _)
FixedOrderSum(S, f) ==
  IF S = {} THEN Zero
  ELSE LET e == CHOOSE x \in S : TRUE
       IN  AddCopies(FixedOrderSum(S \ {e}, f), Contribution(e, f), CopiesIn(e, bag))

\* the exact sum of the values of a dictionary
RECURSIVE DictSum(_, _)
DictSum(d, K) ==
  IF K = {} THEN Zero
  ELSE LET k == CHOOSE x \in K : TRUE IN DecAddExact(d[k], DictSum(d, K \ {k}))

RECURSIVE DictCount(_, _)
DictCount(d, K) ==
  IF K = {} THEN 0
  ELSE LET k == CHOOSE x \in K : TRUE IN d[k] + DictCount(d, K \ {k})

\* No addition into bucket b of field f can be rounded: the contributions,
\* written at their finest decimal place, add up in absolute value to a
\* number of at most PREC digits.
Fits(f, b) ==
  LET S    == {e \in Into(f, b) : Contribution(e, f) # Zero}
      tot  == AbsSum(S, f)
      emin == CHOOSE x \in {Contribution(e, f).exp : e \in S} :
                \A e \in S : x <= Contribution(e, f).exp
  IN  S = {} \/ Len(tot.coef) + tot.exp - emin <= PREC

\* ------------------------------------------------------------ C1

\* C1 as stated: once populated, every field summed over all buckets of the
\* IntervalStats equals the sum of that field over the accepted records whose
\* bucket is in the generated list.
C1_ConservationAsStated ==
  pc = "populated" =>
    /\ \A f \in AmountFields :
         DictSum(stats[f], DOMAIN stats[f]) = ExactSum(InRange(f), f)
    /\ \A f \in CountFields :
         DictCount(stats[f], DOMAIN stats[f]) = Count(InRange(f))

\* C1, amended: once populated, every count field summed over all buckets
\* equals the number of accepted in-range records, and every amount field
\* does so bucket by bucket and in total wherever no addition into the bucket
\* had to be rounded to 16 significant digits.
C1_Conservation ==
  pc = "populated" =>
    /\ \A f \in AmountFields :
         /\ \A b \in Range(stats.buckets) :
              Fits(f, b) => stats[f][b] = ExactSum(Into(f, b), f)
         /\ (\A b \in Range(stats.buckets) : Fits(f, b)) =>
              DictSum(stats[f], DOMAIN stats[f]) = ExactSum(InRange(f), f)
    /\ \A f \in CountFields :
         DictCount(stats[f], DOMAIN stats[f]) = Count(InRange(f))

\* two buckets hold sums of several records, next to a record out of range
\* and a record that was rejected
C1_Witness ==
  /\ pc = "populated"
  /\ BagCardinality(bag) = MaxEvents
  /\ \E f \in AmountFields :
       /\ \A b \in Range(stats.buckets) : Fits(f, b)
       /\ \E b \in Range(stats.buckets) :
            stats[f][b] # Zero /\ Count(Into(f, b)) >= 2
       /\ \E e \in BagToSet(bag) : Accepts(e, f) /\ KeyOf(e) \notin Range(stats.buckets)

\* ------------------------------------------------------------ C5

\* C5: once populated, the keys of every IntervalStats dictionary are exactly
\* the generated buckets; a count of a bucket is the number of accepted
\* records whose floored timestamp is that bucket; and an amount of a bucket
\* is nonzero only if an accepted record with a nonzero amount floors to that
\* very bucket. So a record floored outside the list adds no key and lands in
\* no bucket, and a record floored inside it is counted in its own bucket.
C5_InRangeOnly ==
  pc = "populated" =>
    /\ \A f \in AmountFields \cup CountFields : DOMAIN stats[f] = Range(stats.buckets)
    /\ \A f \in CountFields : \A b \in Range(stats.buckets) :
         stats[f][b] = Count(Into(f, b))
    /\ \A f \in AmountFields : \A b \in Range(stats.buckets) :
         /\ stats[f][b] # Zero => \E e \in Into(f, b) : Contribution(e, f) # Zero
         /\ Count(Into(f, b)) = 1 =>
              \E e \in Into(f, b) : stats[f][b] = DecAdd(Zero, Contribution(e, f))

\* populated from aggregates that hold a bucket outside the list and a bucket
\* inside it
C5_Witness ==
  /\ pc = "populated"
  /\ \E f \in CountFields :
       /\ \E k \in DOMAIN AggOf(f) : k \notin Range(stats.buckets)
       /\ \E b \in Range(stats.buckets) : stats[f][b] > 0
  /\ \E f \in AmountFields :
       /\ \E k \in DOMAIN AggOf(f) : k \notin Range(stats.buckets) /\ AggOf(f)[k] # Zero
       /\ \E b \in Range(stats.buckets) : stats[f][b] # Zero

\* ------------------------------------------------------------ C7

\* the record e is the one this step hands to an aggregation function
Consumes(e) == bag' = bag (+) SetToBag({e})

\* the amount fields of a record
AmountsOf(e) ==
  CASE e.variant = "trade" -> {e.amount, e.totalPrice}
    [] e.variant = "order" -> {e.uah, e.usdt}
    [] e.variant = "tx" -> {e.amount}

\* both dictionaries hold the same value at every key, an absent key being 0
SameValues(d1, d2, zero) ==
  \A k \in DOMAIN d1 \cup DOMAIN d2 : Get(d1, k, zero) = Get(d2, k, zero)

NoAccumulatorChanges ==
  /\ \A f \in AmountFields : SameValues(AggOf(f), AggOf(f)', Zero)
  /\ \A f \in CountFields : SameValues(AggOf(f), AggOf(f)', 0)

\* C7 as stated: a record whose timestamp is missing or unparseable, or one
\* of whose amounts is missing, empty or unparseable, changes no accumulator.
C7_RejectedAsStated ==
  [][\A e \in AllInputs :
       (Consumes(e) /\ (~HasTime(e) \/ \E a \in AmountsOf(e) : a.k # "num"))
         => NoAccumulatorChanges]_vars

\* the amount is present and is not a decimal number
Unparseable(raw) == raw.k = "bad"

\* the record is rejected: its timestamp is missing or unparseable, or an
\* amount the aggregation reads is not a decimal number
Rejected(e) ==
  \/ ~HasTime(e)
  \/ e.variant = "order" /\ \E a \in AmountsOf(e) : Unparseable(a)
  \/ e.variant = "tx" /\ \E a \in AmountsOf(e) : Unparseable(a) \/ a.k = "empty"
  \/ /\ e.variant = "trade"
     /\ Upper(e.orderStatus) \in CompletedSet
     /\ \E a \in AmountsOf(e) : Unparseable(a) \/ a.k = "empty"

\* C7, amended: a record whose timestamp is missing or unparseable, an order
\* row or transaction with an amount that is no decimal number, and a
\* completed trade with such an amount leave every dictionary as it was. An
\* order row whose amount is missing or empty is not rejected: the amount
\* reads as 0 and the row is counted. A cancelled trade is counted whatever
\* its amount.
C7_Rejected ==
  [][\A e \in AllInputs : Consumes(e) =>
       /\ Rejected(e) => agg' = agg
       /\ ( /\ e.variant = "order"
            /\ HasTime(e)
            /\ \A a \in AmountsOf(e) : Readable(a, {"missing", "empty"}) )
          => agg'.order_counts[KeyOf(e)] = Get(agg.order_counts, KeyOf(e), 0) + 1
       /\ ( /\ e.variant = "trade"
            /\ PassesFilter(e)
            /\ HasTime(e)
            /\ Upper(e.orderStatus) \in CancelledSet )
          => agg'.cancelled_counts[KeyOf(e)] = Get(agg.cancelled_counts, KeyOf(e), 0) + 1
    ]_vars

\* a rejected order row and a rejected trade were consumed next to an
\* accepted record
C7_Witness ==
  /\ \E e \in BagToSet(bag) : e.variant = "order" /\ Rejected(e) /\ HasTime(e)
  /\ \E e \in BagToSet(bag) : e.variant = "trade" /\ Rejected(e) /\ PassesFilter(e)
  /\ \E e \in BagToSet(bag) : Accepts(e, "order_counts")
  /\ \A f \in {"sold_fiat", "sold_crypto", "cancelled_counts", "tx_flows"} :
       AggOf(f) = <<>>

\* ------------------------------------------------------------ C8

\* the buckets that field f has records or a value for
KeysOf(f) == DOMAIN AggOf(f) \cup {KeyOf(e) : e \in {x \in BagToSet(bag) : Accepts(x, f)}}

\* C8 as stated: whatever the order in which the records arrived, every
\* bucket of every aggregate holds the value that one fixed order of the same
\* records gives under the 16-digit context.
C8_AnyOrderAsStated ==
  /\ \A f \in AmountFields : \A b \in KeysOf(f) :
       Get(AggOf(f), b, Zero) = FixedOrderSum(Into(f, b), f)
  /\ \A f \in CountFields : \A b \in KeysOf(f) :
       Get(AggOf(f), b, 0) = Count(Into(f, b))

\* C8, amended: whatever the order in which the records arrived, every count
\* is the number of its records, and every amount of a bucket into which no
\* addition had to be rounded to 16 significant digits is the value one fixed
\* order of the same records gives, which is their exact sum.
C8_AnyOrder ==
  /\ \A f \in AmountFields : \A b \in KeysOf(f) :
       Fits(f, b) =>
         /\ Get(AggOf(f), b, Zero) = FixedOrderSum(Into(f, b), f)
         /\ Get(AggOf(f), b, Zero) = ExactSum(Into(f, b), f)
  /\ \A f \in CountFields : \A b \in KeysOf(f) :
       Get(AggOf(f), b, 0) = Count(Into(f, b))

\* a bucket holds the sum of three records of two different amounts
C8_Witness ==
  \E f \in AmountFields : \E b \in KeysOf(f) :
    /\ Fits(f, b)
    /\ Count(Into(f, b)) = 3
    /\ Cardinality({Contribution(e, f) : e \in Into(f, b)}) >= 2
    /\ AggOf(f)[b] # Zero

\* ------------------------------------------------------------ C9

\* dictionary d2 is d1 with v at key b and nothing else changed
OnlyAt(d1, d2, b, v) ==
  /\ DOMAIN d2 = DOMAIN d1 \cup {b}
  /\ d2[b] = v
  /\ \A k \in DOMAIN d1 \ {b} : d2[k] = d1[k]

SoldUnchanged ==
  /\ agg'.sold_fiat_totals = agg.sold_fiat_totals
  /\ agg'.sold_crypto_totals = agg.sold_crypto_totals

HourNumber(dt) == ToOrdinal(dt) * 24 + dt.hour

SameClock(a, b) ==
  a.minute = b.minute /\ a.second = b.second /\ a.microsecond = b.microsecond

\* b is a exactly h hours later
HoursLater(a, b, h) == HourNumber(b) = HourNumber(a) + h /\ SameClock(a, b)

\* b is midnight of the first day of the calendar month after that of a
FirstOfNextMonth(a, b) ==
  /\ b.day = 1 /\ b.hour = 0 /\ b.minute = 0 /\ b.second = 0 /\ b.microsecond = 0
  /\ \/ a.month < 12 /\ b.year = a.year /\ b.month = a.month + 1
     \/ a.month = 12 /\ b.year = a.year + 1 /\ b.month = 1

\* C2: for from <= to, at every moment of the loop and at its return the
\* buckets are strictly increasing and consecutive ones are exactly one step
\* apart: 1 hour, 24 hours, 7 days, or, for month, the first day of the next
\* calendar month, December being followed by January of the next year.
C2_Steps ==
  (gen.pc \in {"loop", "returned"} /\ DtLe(gen.from_dt, gen.to_dt)) =>
    \A i \in 1..(Len(gen.buckets) - 1) :
      LET a == gen.buckets[i]
          b == gen.buckets[i + 1]
      IN  /\ DtCmp(a, b) < 0
          /\ gen.interval = "hour" => HoursLater(a, b, 1)
          /\ gen.interval = "day" => HoursLater(a, b, 24)
          /\ gen.interval = "week" => HoursLater(a, b, 168)
          /\ gen.interval = "month" => FirstOfNextMonth(a, b)

\* a monthly list was returned that runs from December into the next year
C2_Witness ==
  /\ gen.pc = "returned"
  /\ gen.interval = "month"
  /\ Len(gen.buckets) >= 3
  /\ \E i \in 1..(Len(gen.buckets) - 1) :
       gen.buckets[i].month = 12 /\ gen.buckets[i + 1].year = gen.buckets[i].year + 1

\* ------------------------------------------------------------ C3

\* C3: for from <= to, the returned list is not empty, starts with
\* floor_datetime(from) and ends with floor_datetime(to), also when from = to.
C3_Ends ==
  (gen.pc = "returned" /\ DtLe(gen.from_dt, gen.to_dt)) =>
    /\ gen.buckets # <<>>
    /\ gen.buckets[1] = floor_datetime(gen.from_dt, gen.interval)
    /\ gen.buckets[Len(gen.buckets)] = floor_datetime(gen.to_dt, gen.interval)

\* a list of one bucket was returned for from = to in the middle of a week,
\* the bucket being the Monday before
C3_Witness ==
  /\ gen.pc = "returned"
  /\ gen.from_dt = gen.to_dt
  /\ gen.interval = "week"
  /\ Len(gen.buckets) = 1
  /\ gen.buckets[1].day # gen.from_dt.day

\* ------------------------------------------------------------ C4

BF == stats.bought_fiat[TheBucket]

BC == stats.bought_crypto[TheBucket]

SF == stats.sold_fiat[TheBucket]

SC == stats.sold_crypto[TheBucket]

\* the two formulas as the claim writes them, every operation in the context
RateFormula == DecDivT(DecDivT(SF, SC), DecDivT(BF, BC))

AmountFormula ==
  DecSubT(DecSubT(DecDivT(DecMulT(SC, DecDivT(SF, SC)), DecDivT(BF, BC)), SC),
          DecDivT(SC, DecOfInt(1000)))

Present(x) == x # None /\ x # NotCalled

\* C4 as stated: with bought_crypto or sold_crypto zero the profit rate and
\* amount are absent; with both nonzero they are present and equal the
\* formulas, whatever bought_fiat and sold_fiat are; and the legacy message
\* shows a profit in exactly the same cases.
C4_ProfitAsStated ==
  /\ profit.rate # NotCalled =>
       IF BC = Zero \/ SC = Zero THEN profit.rate = None
       ELSE Present(profit.rate) /\ profit.rate = RateFormula
  /\ profit.amount # NotCalled =>
       IF BC = Zero \/ SC = Zero THEN profit.amount = None
       ELSE Present(profit.amount) /\ profit.amount = AmountFormula
  /\ profit.message # NotCalled =>
       IF BC = Zero \/ SC = Zero THEN profit.message.message # "profit"
       ELSE /\ profit.message.message = "profit"
            /\ profit.message.profit_rate = RateFormula
            /\ profit.message.profit_amount = AmountFormula

\* x * y, exactly
DecMulExact(x, y) == DecCanon(x.neg # y.neg, NMul(x.coef, y.coef), x.exp + y.exp)

\* |x| <= |y|, exactly
AbsLe(x, y) ==
  LET d == DecAddExact(DecAbs(x), DecNeg(DecAbs(y))) IN d.neg \/ d.coef = <<>>

\* rate is (sf / sc) / (bf / bc) to within 2 units of the 16th digit:
\* |rate * bf * sc - sf * bc| * 10^15 <= 2 * |sf * bc|
RateIsClose(rate) ==
  LET num == DecMulExact(SF, BC)
      err == DecAddExact(DecMulExact(rate, DecMulExact(BF, SC)), DecNeg(num))
  IN  AbsLe(DecMulExact(err, DecSci(1, 15)), DecMulExact(DecOfInt(2), num))

\* amount is sf * bc / bf - sc - sc / 1000 to within 4 units of the 16th
\* digit of the terms: |1000 * amount * bf - (1000 * sf * bc - 1001 * sc * bf)|
\* * 10^15 <= 4 * (1000 * |sf * bc| + 1001 * |sc * bf|)
AmountIsClose(amount) ==
  LET pos == DecMulExact(DecOfInt(1000), DecMulExact(SF, BC))
      sub == DecMulExact(DecOfInt(1001), DecMulExact(SC, BF))
      err == DecAddExact(DecMulExact(DecOfInt(1000), DecMulExact(amount, BF)),
                         DecAddExact(DecNeg(pos), sub))
  IN  AbsLe(DecMulExact(err, DecSci(1, 15)),
            DecMulExact(DecOfInt(4), DecAddExact(DecAbs(pos), DecAbs(sub))))

\* C4, amended: the profit rate and amount of a bucket are absent exactly when
\* bought_crypto, sold_crypto or bought_fiat is zero; otherwise both are
\* present, are the formulas evaluated in the 16-digit context, and are the
\* exact quotients to within a few units of the 16th digit. The legacy
\* message shows a profit exactly when all four volumes are nonzero, and then
\* the same two values.
C4_Profit ==
  LET absent == BC = Zero \/ SC = Zero \/ BF = Zero
  IN  /\ profit.rate # NotCalled =>
           IF absent THEN profit.rate = None
           ELSE /\ Present(profit.rate)
                /\ profit.rate = RateFormula
                /\ RateIsClose(profit.rate)
      /\ profit.amount # NotCalled =>
           IF absent THEN profit.amount = None
           ELSE /\ Present(profit.amount)
                /\ profit.amount = AmountFormula
                /\ AmountIsClose(profit.amount)
      /\ profit.message # NotCalled =>
           IF absent \/ SF = Zero THEN profit.message.message # "profit"
           ELSE /\ profit.message.message = "profit"
                /\ profit.message.profit_rate = RateFormula
                /\ profit.message.profit_amount = AmountFormula

\* all three were called on four nonzero volumes whose quotients do not
\* terminate, and returned a rate and an amount
C4_Witness ==
  /\ Present(profit.rate)
  /\ Present(profit.amount)
  /\ profit.message # NotCalled
  /\ profit.message.message = "profit"
  /\ profit.amount.neg
  /\ DecMulExact(profit.rate, DecMulExact(BF, SC)) # DecMulExact(SF, BC)

\* ------------------------------------------------------------ C10

\* the class of a status when it is compared case-insensitively with the two
\* closed sets
StatusClass(status) ==
  IF Upper(status) \in CompletedSet THEN "completed"
  ELSE IF Upper(status) \in CancelledSet THEN "cancelled"
  ELSE "other"

\* C10 for the aggregations of the legacy bot: a trade that passes the
\* currency filter enters the sold totals exactly when its status, in any
\* letter case, is in the completed set, and is counted as cancelled exactly
\* when its status, in any letter case, is in the cancelled set.
C10_LegacyStatusClasses ==
  [][\A t \in LegacyTradeInputs : PassesFilter(t) =>
       /\ legacy'.sold_seen = legacy.sold_seen (+) SetToBag({t}) =>
            ( StatusClass(t.orderStatus) = "completed"
                <=> \/ legacy'.pc = "raised"
                    \/ legacy'.total_crypto # legacy.total_crypto
                    \/ legacy'.total_fiat # legacy.total_fiat )
       /\ legacy'.cancelled_seen = legacy.cancelled_seen (+) SetToBag({t}) =>
            ( StatusClass(t.orderStatus) = "cancelled" <=> legacy'.cnt = legacy.cnt + 1 )
    ]_vars

\* ------------------------------------------------------------ C6

\* the records of stats_data the loop of stats() did not skip
Counted == SelectSeq(rep.data, LAMBDA rec : fromisoformat(rec.period_start) # Raised)

\* the sum of a field over the counted records
SumOf(field) ==
  LET Step(acc, i) == DecAddExact(acc, DecimalOfGetOr(Counted[i][field]))
  IN  Iter(Step, Zero, 1, Len(Counted))

\* the profit formula applied to the summed volumes
ProfitOfSums ==
  stats_profit(SumOf("bought_uah"), SumOf("bought_usdt"), SumOf("sold_uah"), SumOf("sold_usdt"))

\* C6: when the summary is sent and the profit formula has a value for the
\* volumes summed over all buckets, the total profit amount the summary
\* prints is that value, as printed with four decimals.
C6_TotalsFromSums ==
  (rep.pc = "sent" /\ ProfitOfSums \notin {None, Raised})
    => rep.totals.profit_amount = Fixed(FloatExact(ToFloat(ProfitOfSums)), 4)

\* ------------------------------------------------------------ C11

\* the dictionaries of the trades and of the transactions stay as they were
OnlyOrderDictionaries ==
  /\ SoldUnchanged
  /\ agg'.cancelled_counts = agg.cancelled_counts
  /\ agg'.flows = agg.flows

\* C11: an order row with a parseable created time and readable amounts adds
\* exactly 1 to order_counts of its bucket and its uah and usdt to
\* bought_fiat and bought_crypto of the same bucket, and touches no other
\* bucket or dictionary; a row that differs from it in nothing but its status
\* has the same effect.
C11_OrderAdds ==
  [][\A e \in OrderInputs :
       (Consumes(e) /\ Accepts(e, "order_counts")) =>
         LET b == KeyOf(e)
         IN  /\ OnlyAt(agg.order_counts, agg'.order_counts, b,
                       Get(agg.order_counts, b, 0) + 1)
             /\ OnlyAt(agg.bought_fiat_totals, agg'.bought_fiat_totals, b,
                       DecAdd(Get(agg.bought_fiat_totals, b, Zero), ValueOf(e.uah)))
             /\ OnlyAt(agg.bought_crypto_totals, agg'.bought_crypto_totals, b,
                       DecAdd(Get(agg.bought_crypto_totals, b, Zero), ValueOf(e.usdt)))
             /\ OnlyOrderDictionaries
             /\ \A o \in OrderInputs :
                  (o.created = e.created /\ o.uah = e.uah /\ o.usdt = e.usdt)
                    => order_step(agg, o, run.interval) = agg'
    ]_vars

\* a completed, a cancelled and a pending order row were consumed and each
\* was counted
C11_Witness ==
  /\ \A st \in {"completed", "cancelled", "pending"} :
       \E e \in BagToSet(bag) : Accepts(e, "order_counts") /\ e.status = st
  /\ DictCount(agg.order_counts, DOMAIN agg.order_counts) = 3
  /\ \E b \in DOMAIN agg.bought_fiat_totals : agg.bought_fiat_totals[b] = DecOfInt(2000)

\* ------------------------------------------------------------ C12

\* the flow of bucket b after this step is its flow before plus v
FlowMovesBy(b, v) ==
  OnlyAt(agg.flows, agg'.flows, b, DecAdd(Get(agg.flows, b, Zero), v))

\* C12: a transaction in the target currency with a parseable timestamp and
\* a readable amount moves the flow of its bucket by +amount when its kind is
\* credit and by -amount when its kind is debit, and when its kind is neither
\* of the two the flow of its bucket does not go up by its amount.
C12_KindSign ==
  [][\A tr \in TransactionInputs :
       (Consumes(tr) /\ Accepts(tr, "tx_flows")) =>
         LET b    == KeyOf(tr)
             kind == Lower(OrEmpty(tr.kind))
         IN  /\ kind = "credit" => FlowMovesBy(b, ValueOf(tr.amount))
             /\ kind = "debit" => FlowMovesBy(b, DecNeg(ValueOf(tr.amount)))
             /\ kind \notin {"credit", "debit"} => ~FlowMovesBy(b, ValueOf(tr.amount))
    ]_vars

\* ------------------------------------------------------------ C13

\* The currencies of a record: asset and fiat of a trade, currency of a
\* transaction; an order row has no currency field, its amounts are the
\* columns uah and usdt.
Mismatches(e) ==
  CASE e.variant = "trade" -> e.asset # ASSET \/ e.fiat # FIAT
    [] e.variant = "tx" -> e.currency # ASSET
    [] e.variant = "order" -> "UAH" # FIAT \/ "USDT" # ASSET

\* C13: a record of any variant whose currency is not the configured one
\* (a trade with another asset or fiat, a transaction in another currency,
\* an order row in another fiat or asset) changes no dictionary of the
\* aggregation, the cancelled counts included.
C13_CurrencyFilter ==
  [][\A e \in AllInputs : (Consumes(e) /\ Mismatches(e)) => agg' = agg]_vars

\* ------------------------------------------------------------ C14

\* the tokens of the request, as stats() compares them
TokensOf(args) == {Lower(args[i]) : i \in 3..Len(args)}

\* C14: no request is carried on with a granularity the caller did not give:
\* when stats() goes on to fetch the report, every token of the request that
\* is not the pdf flag is one of hour, day, week, month.
C14_NoSilentDefault ==
  rep.pc = "fetch" => TokensOf(rep.args) \subseteq Intervals \cup {"pdf", "report"}

\* ------------------------------------------------------------ C15

\* C15: generate_buckets returns no list, empty or not, for a period whose
\* from is after its to.
C15_ReversedPeriod ==
  gen.pc = "returned" => DtLe(gen.from_dt, gen.to_dt)

\* ------------------------------------------------------------ C16

\* no record seen so far is accepted for any field into bucket b
NoEvents(b) == \A f \in StatsFields : Into(f, b) = {}

\* C16: from construction on and after every populate, the buckets are in
\* ascending order, every dictionary of the IntervalStats has exactly the
\* generated buckets as its keys, in the order of the bucket list, a field
\* of a bucket that no record was accepted for is 0, and a bucket with no
\* accepted record at all has neither a profit_rate nor a profit_amount.
C16_Dense ==
  /\ \A i, j \in 1..Len(stats.buckets) :
       i < j => DtCmp(stats.buckets[i], stats.buckets[j]) < 0
  /\ \A f \in StatsFields :
       /\ stats.keys[f] = stats.buckets
       /\ DOMAIN stats[f] = Range(stats.buckets)
       /\ \A b \in Range(stats.buckets) :
            Into(f, b) = {} => stats[f][b] = IF f \in CountFields THEN 0 ELSE Zero
  /\ \A b \in Range(stats.buckets) :
       NoEvents(b) => profit_rate(stats, b) = None /\ profit_amount(stats, b) = None

\* populate was called on a report of two buckets, one with an accepted
\* order row and an accepted trade and one with no accepted record, while
\* the aggregates hold a bucket outside the report
C16_Witness ==
  /\ pc = "populated"
  /\ Len(stats.buckets) = 2
  /\ stats.order_counts[stats.buckets[1]] = 1
  /\ stats.sold_crypto[stats.buckets[1]] # Zero
  /\ NoEvents(stats.buckets[2])
  /\ \E k \in DOMAIN agg.order_counts : k \notin Range(stats.buckets)

\* ------------------------------------------------------------ C17

RECURSIVE RunAlone(_, _, _)
RunAlone(events, n, interval) ==
  IF n = 0 THEN EmptyAgg
  ELSE event_step(RunAlone(events, n - 1, interval), events[n], interval)

\* C18: however the steps of the two calls interleave, the dictionaries of
\* each call hold, at every point, what the same call run alone holds after
\* the same number of its records; so no call sees what the other has added.
C18_Isolated ==
  calls # CallsIdle =>
    \A c \in Calls :
      calls[c].acc = RunAlone(calls[c].events, calls[c].pos, calls[c].interval)

\* both calls have returned, each after two records, with different
\* results that hold a value for the same bucket
C18_Witness ==
  /\ \A c \in Calls : calls[c].pc = "returned" /\ calls[c].pos = 2
  /\ calls["first"].acc # calls["second"].acc
  /\ \E b \in DOMAIN calls["first"].acc.order_counts :
       b \in DOMAIN calls["second"].acc.flows

\* ------------------------------------------------------------ C19

\* |x| <= |y|
DecAbsLe(x, y) ==
  LET e == IF x.exp < y.exp THEN x.exp ELSE y.exp
  IN  NCmp(NShl(x.coef, x.exp - e), NShl(y.coef, y.exp - e)) <= 0

\* one of the two is 0 or both have the same sign
SameSign(x, y) == x.coef = <<>> \/ y.coef = <<>> \/ x.neg = y.neg

\* C19 as stated: no step of the aggregation lowers the absolute value of a
\* field of a bucket, net_tx_flow included; a bucket without a value is 0.
C19_MagnitudeAsStated ==
  [][/\ \A f \in CountFields : \A b \in DOMAIN AggOf(f)' :
          Get(AggOf(f), b, 0) <= AggOf(f)'[b]
     /\ \A f \in AmountFields : \A b \in DOMAIN AggOf(f)' :
          DecAbsLe(Get(AggOf(f), b, Zero), AggOf(f)'[b])
    ]_vars

\* C19, amended: a bucket without a value is 0 and no value is ever removed;
\* a step changes a count by +1 or not at all; it changes a sum only in the
\* bucket of an accepted record, to the sum of the value so far and the
\* signed contribution of the record; the absolute value of a sum does not
\* go down when the contribution is 0 or has the sign of the value so far.
\* (It does go down when a debit follows credits in net_tx_flow, or when an
\* amount is negative.)
C19_Magnitude ==
  [][\A e \in AllInputs : Consumes(e) =>
       /\ \A f \in CountFields :
            /\ DOMAIN AggOf(f) \subseteq DOMAIN AggOf(f)'
            /\ \A b \in DOMAIN AggOf(f)' :
                 AggOf(f)'[b] - Get(AggOf(f), b, 0) \in {0, 1}
       /\ \A f \in AmountFields :
            /\ DOMAIN AggOf(f) \subseteq DOMAIN AggOf(f)'
            /\ \A b \in DOMAIN AggOf(f)' :
                 IF Accepts(e, f) /\ b = KeyOf(e)
                 THEN /\ AggOf(f)'[b] = DecAdd(Get(AggOf(f), b, Zero), Contribution(e, f))
                      /\ SameSign(Get(AggOf(f), b, Zero), Contribution(e, f))
                           => DecAbsLe(Get(AggOf(f), b, Zero), AggOf(f)'[b])
                 ELSE b \in DOMAIN AggOf(f) /\ AggOf(f)'[b] = AggOf(f)[b]
    ]_vars

\* a debit of 5 and an addition of 3 met in one bucket, whose flow of -2 is
\* smaller in absolute value than what the first of them left, next to an
\* order row with negative amounts
C19_Witness ==
  /\ \E b \in DOMAIN agg.flows : agg.flows[b] = DecOfInt(-2)
  /\ \E b \in DOMAIN agg.bought_fiat_totals : agg.bought_fiat_totals[b] = DecOfInt(-400)

\* ------------------------------------------------------------ C20

\* the sum of a column over the lines of the records in the summary
LineSum(col) ==
  LET Step(acc, i) == acc + rep.lines[i][col]
  IN  Iter(Step, 0, 1, Len(rep.lines))

\* the sum of an amount over the records whose line is in the summary, as
\* floats added in the order of the lines
FloatSum(field) ==
  LET Step(acc, i) == FloatAdd(acc, ToFloat(FloatArg(Counted[i][field])))
  IN  Iter(Step, FloatZero, 1, Len(Counted))

\* the lines of the summary are those of the records whose period_start was
\* parsed, in the order of stats_data
LinesOfCounted ==
  /\ Len(rep.lines) = Len(Counted)
  /\ \A i \in 1..Len(Counted) :
       /\ rep.lines[i].dt = fromisoformat(Counted[i].period_start)
       /\ rep.lines[i].orders = IntOfGetOr(Counted[i].orders_count)
       /\ rep.lines[i].withdraw_on = IntOfGetOr(Counted[i].withdraw_onchain_count)

\* C20: when the summary is sent, its lines are those of the records that
\* were not skipped; the totals of orders, cancelled orders, maker and taker
\* ads and updates and withdrawal counts are the sums of these numbers over
\* the lines, and the totals of the withdrawal amounts and of the net flow
\* are the float sums of the amounts of the same records, in the order of
\* the lines, as printed with four decimals; a record without a line adds
\* to no total.
C20_TotalsOfLines ==
  rep.pc = "sent" =>
    /\ LinesOfCounted
    /\ rep.totals.total_orders = LineSum("orders")
    /\ rep.totals.total_cancelled = LineSum("cancelled")
    /\ rep.totals.total_maker_ads = LineSum("maker_ads")
    /\ rep.totals.total_taker_ads = LineSum("taker_ads")
    /\ rep.totals.total_maker_updates = LineSum("maker_updates")
    /\ rep.totals.total_taker_updates = LineSum("taker_updates")
    /\ rep.totals.total_withdraw_on = LineSum("withdraw_on")
    /\ rep.totals.total_withdraw_off = LineSum("withdraw_off")
    /\ rep.totals.total_withdraw_on_usdt = Fixed(FloatExact(FloatSum("withdraw_onchain_usdt")), 4)
    /\ rep.totals.total_withdraw_off_usdt = Fixed(FloatExact(FloatSum("withdraw_offchain_usdt")), 4)
    /\ rep.totals.total_net_flow = Fixed(FloatExact(FloatSum("net_tx_flow")), 4)

\* a summary of two lines and a skipped record, with ads, withdrawals and a
\* net flow in its totals
C20_Witness ==
  /\ rep.pc = "sent"
  /\ Len(rep.lines) = 2
  /\ Len(rep.data) = 3
  /\ rep.totals.total_maker_ads > 0
  /\ rep.totals.total_withdraw_off > 0
  /\ rep.totals.total_withdraw_on_usdt # Fixed(Zero, 4)
  /\ rep.totals.total_net_flow # Fixed(Zero, 4)

\* ------------------------------------------------------------ C21

\* the report of the period 2025-12-01..2025-12-02 by day was populated from
\* the example order and the example trade and nothing else
ExampleRun ==
  /\ pc = "populated"
  /\ run # None
  /\ run.interval = "day" /\ run.tz = 0 /\ run.fiat = "UAH" /\ run.asset = "USDT"
  /\ run.from_dt = DT(2025, 12, 1, 0, 0, 0, 0)
  /\ run.to_dt = DT(2025, 12, 2, 0, 0, 0, 0)
  /\ bag = SetToBag({ExampleOrder, ExampleTrade})

ExampleDay == DT(2025, 12, 1, 0, 0, 0, 0)

NextDay == DT(2025, 12, 2, 0, 0, 0, 0)

\* what the example holds apart from the profit amount
ExampleVolumes ==
  /\ stats.buckets = <<ExampleDay, NextDay>>
  /\ stats.bought_fiat[ExampleDay] = DecOfInt(1000)
  /\ stats.bought_crypto[ExampleDay] = DecOfInt(25)
  /\ stats.sold_fiat[ExampleDay] = DecOfInt(1050)
  /\ stats.sold_crypto[ExampleDay] = DecOfInt(25)
  /\ profit_rate(stats, ExampleDay) = DecSci(105, -2)
  /\ \A f \in {"bought_fiat", "bought_crypto", "sold_fiat", "sold_crypto", "tx_flows"} :
       stats[f][NextDay] = Zero
  /\ \A f \in {"order_counts", "cancelled_counts"} : stats[f][NextDay] = 0
  /\ profit_rate(stats, NextDay) = None
  /\ profit_amount(stats, NextDay) = None

\* the example with the profit amount of 0.975
C21_ExampleAsStated ==
  ExampleRun => (ExampleVolumes /\ profit_amount(stats, ExampleDay) = DecSci(975, -3))

\* C21: the report by day of 2025-12-01..2025-12-02, populated from the order
\* (10:00, 1000 UAH, 25 USDT) and the completed trade (12:00, 25 USDT,
\* 1050 UAH), has the buckets 2025-12-01 and 2025-12-02; the first holds
\* bought 1000 / 25, sold 1050 / 25, profit rate 1.05 and profit amount
\* 25 * 42 / 40 - 25 - 0.025 = 1.225; the second holds zeros and has no
\* profit rate and no profit amount.
C21_Example ==
  ExampleRun => (ExampleVolumes /\ profit_amount(stats, ExampleDay) = DecSci(1225, -3))

C21_Witness ==
  /\ ExampleRun
  /\ stats.order_counts[ExampleDay] = 1
  /\ profit_amount(stats, ExampleDay) # None

\* ------------------------------------------------------------ C22

\* C22: no record makes an aggregation function of the legacy bot leave its
\* loop with an exception: whatever the records seen so far, the function is
\* still running (and will return normally).
C22_Absorbed ==
  legacy # LegacyIdle => legacy.pc = "running"

\* ------------------------------------------------------------ C24

\* the buckets whose entry of a dictionary differs after the step
ChangedKeys(f) ==
  {b \in DOMAIN AggOf(f) \cup DOMAIN AggOf(f)' :
     \/ b \notin DOMAIN AggOf(f)
     \/ b \notin DOMAIN AggOf(f)'
     \/ AggOf(f)[b] # AggOf(f)'[b]}

\* C24: a consumed record changes the dictionaries at no bucket other than
\* the floor of its own timestamp at the interval of the run (at none when
\* it has no timestamp), and a record that is counted as an order or as a
\* cancelled trade changes the counter at that bucket and nowhere else.
C24_OneBucket ==
  [][\A e \in AllInputs :
       Consumes(e) =>
         /\ \A f \in AmountFields \cup CountFields :
              ChangedKeys(f) \subseteq (IF HasTime(e) THEN {KeyOf(e)} ELSE {})
         /\ \A f \in CountFields :
              Accepts(e, f) => ChangedKeys(f) = {KeyOf(e)}]_vars

\* counted orders in two buckets, and amounts at both
C24_Witness ==
  /\ Cardinality(DOMAIN agg.order_counts) >= 2
  /\ Cardinality(DOMAIN agg.bought_fiat_totals) >= 2
  /\ \E b \in DOMAIN agg.order_counts : agg.order_counts[b] >= 2

\* ------------------------------------------------------------ C25

\* the ISO timestamp an order row or a transaction carries for the instant
\* of an epoch value: its wall clock at offset 0
IsoOfInstant(raw) == Iso(fromtimestamp(raw, 0))

\* C25: every bucket at which a trade was counted is the bucket an order row
\* or a transaction of the same instant is assigned to: the floor of the
\* wall clock of the instant itself, whatever the offset of the host.
C25_SameInstantSameBucket ==
  \A b \in DOMAIN agg.sold_fiat_totals \cup DOMAIN agg.cancelled_counts :
    \E t \in BagToSet(bag) :
      /\ t.variant = "trade"
      /\ HasTime(t)
      /\ b = floor_datetime(fromisoformat(IsoOfInstant(t.createTime)), run.interval)

\* ------------------------------------------------------------ C26

\* the sum of an amount over the records the loop has counted so far
AmountSum(field) ==
  LET Step(acc, i) == DecAddExact(acc, FloatArg(Counted[i][field]))
  IN  Iter(Step, Zero, 1, Len(Counted))

\* the value has at most PREC significant digits
FitsPrec(x) == Len(x.coef) <= PREC

\* C26: while stats() adds up the records, each accumulated amount total
\* whose exact sum has at most 16 significant digits is that exact sum, and
\* the total the summary prints is the exact sum with four decimals.
C26_ExactTotals ==
  /\ (rep # RepIdle /\ FitsPrec(AmountSum("net_tx_flow"))) =>
       FloatExact(rep.total_net_flow) = AmountSum("net_tx_flow")
  /\ (rep # RepIdle /\ rep.pc = "sent") =>
       /\ rep.totals.total_net_flow = Fixed(AmountSum("net_tx_flow"), 4)
       /\ rep.totals.total_withdraw_on_usdt = Fixed(AmountSum("withdraw_onchain_usdt"), 4)
       /\ rep.totals.total_withdraw_off_usdt = Fixed(AmountSum("withdraw_offchain_usdt"), 4)

\* ------------------------------------------------------------ C27

\* timestamps to look up in a returned list: the dates of the calls, ends of
\* days, of weeks and of months, and a leap day
Probes ==
  GenDates \cup
  { DT(2024, 2, 29, 23, 59, 59, 999999), DT(2025, 12, 1, 0, 0, 0, 0),
    DT(2025, 12, 7, 23, 59, 59, 999999), DT(2025, 12, 31, 23, 59, 59, 999999),
    DT(2026, 1, 4, 23, 59, 59, 999999), DT(2026, 1, 31, 12, 0, 0, 0),
    DT(2026, 2, 1, 0, 0, 0, 0) }

\* the probes inside the period of the call
InPeriod == {t \in Probes : DtLe(gen.from_dt, t) /\ DtLe(t, gen.to_dt)}

\* C27: when generate_buckets returns for from <= to, the floor of every
\* timestamp of the period is in the returned list, is not after the
\* timestamp, and no later bucket of the list is at or before the timestamp.
C27_FloorInList ==
  (gen.pc = "returned" /\ DtLe(gen.from_dt, gen.to_dt)) =>
    \A t \in InPeriod :
      /\ floor_datetime(t, gen.interval) \in Range(gen.buckets)
      /\ DtLe(floor_datetime(t, gen.interval), t)
      /\ \A b \in Range(gen.buckets) :
           DtLe(b, t) => DtLe(b, floor_datetime(t, gen.interval))

\* a list of three or more buckets was returned, and a timestamp of the
\* period that is not itself a bucket falls in a bucket that is neither the
\* first nor the last
C27_Witness ==
  /\ gen.pc = "returned"
  /\ Len(gen.buckets) >= 3
  /\ \E t \in InPeriod :
       /\ t \notin {gen.from_dt, gen.to_dt}
       /\ t \notin Range(gen.buckets)
       /\ floor_datetime(t, gen.interval)
            \notin {gen.buckets[1], gen.buckets[Len(gen.buckets)]}

\* ------------------------------------------------------------ C28

\* 00:00:00.000000
Midnight(b) == b.hour = 0 /\ b.minute = 0 /\ b.second = 0 /\ b.microsecond = 0

\* b is what the claim says of the floor of t at a granularity
FloorOf(b, t, interval) ==
  /\ floor_datetime(b, interval) = b
  /\ DtLe(b, t)
  /\ DtCmp(t, advance(b, interval)) < 0
  /\ interval = "hour" =>
       /\ b.minute = 0 /\ b.second = 0 /\ b.microsecond = 0
       /\ b.hour = t.hour /\ ToOrdinal(b) = ToOrdinal(t)
  /\ interval = "day" => Midnight(b) /\ ToOrdinal(b) = ToOrdinal(t)
  /\ interval = "week" =>
       /\ Midnight(b)
       /\ Weekday(b) = 0
       /\ ToOrdinal(t) - ToOrdinal(b) \in 0..6
  /\ interval = "month" =>
       Midnight(b) /\ b.day = 1 /\ b.month = t.month /\ b.year = t.year

\* C28: the floors generate_buckets has taken of from_dt and of to_dt are
\* fixed points of floor_datetime, are not after their timestamp, have the
\* timestamp strictly before the next bucket start, and are the start of
\* the hour, the day, the Monday of the week (at most 6 days back) or the
\* first day of the month of the timestamp.
C28_Floor ==
  gen.pc \in {"loop", "returned"} =>
    /\ FloorOf(gen.end, gen.to_dt, gen.interval)
    /\ gen.buckets # <<>> => FloorOf(gen.buckets[1], gen.from_dt, gen.interval)

\* the floor of a Sunday by week is the Monday six days before, in the
\* month before
C28_Witness ==
  /\ gen.pc = "returned"
  /\ gen.interval = "week"
  /\ Weekday(gen.to_dt) = 6
  /\ ToOrdinal(gen.to_dt) - ToOrdinal(gen.end) = 6
  /\ gen.end.month # gen.to_dt.month

\* ------------------------------------------------------------ C29

\* C29: every pass of the loop of generate_buckets is made with current at
\* or before floor(to) and leaves current strictly later; once current is
\* after floor(to) the next step returns the list as it is; and every call
\* comes to an end, by a return or, for an unsupported granularity, by the
\* ValueError.
C29_Terminates ==
  /\ [][(gen.pc = "loop" /\ gen'.pc = "loop") =>
          /\ DtLe(gen.current, gen.end)
          /\ DtCmp(gen.current, gen'.current) < 0]_vars
  /\ [][(gen.pc = "loop" /\ ~DtLe(gen.current, gen.end)) =>
          (gen'.pc = "returned" /\ gen'.buckets = gen.buckets)]_vars
  /\ <>(gen.pc \in {"returned", "raised"})

\* the loop has run four times by the hour, across the end of a year, and
\* has returned with current after floor(to)
C29_Witness ==
  /\ gen.pc = "returned"
  /\ gen.interval = "hour"
  /\ Len(gen.buckets) = 4
  /\ gen.buckets[1].year # gen.end.year
  /\ DtCmp(gen.current, gen.end) > 0

\* ------------------------------------------------------------ C30

\* the chat is subscribed
Subscribed == Chat \in notif.sessions

\* /stop was the last handler to change the subscription, no handler is
\* running and no run of poll_notifications is under way
StoppedAndQuiet ==
  /\ notif.last_done = "stop"
  /\ notif.handler = "idle"
  /\ \A i \in 1..MaxPolls : notif.runs[i] = NoRun

\* last_notif_id of the chat does not decrease while the chat is subscribed
NeverDecreases ==
  (/\ notif # NotifIdle
   /\ Subscribed /\ Subscribed'
   /\ Chat \in DOMAIN notif.last_notif_id
   /\ Chat \in DOMAIN notif'.last_notif_id)
    => notif'.last_notif_id[Chat] >= notif.last_notif_id[Chat]

\* after /stop neither dictionary holds the chat
NothingLeft ==
  (notif # NotifIdle /\ StoppedAndQuiet) =>
    (Chat \notin notif.sessions /\ Chat \notin DOMAIN notif.last_notif_id)

\* C30: however /start with its login, the runs of poll_notifications and
\* /stop interleave, last_notif_id of the chat never decreases while the chat
\* is subscribed, and once /stop has completed and no run of
\* poll_notifications is under way, neither sessions nor last_notif_id holds
\* the chat.
C30_Subscription ==
  [][NeverDecreases]_vars /\ []NothingLeft

====
